---------------------------- MODULE Spec2Model ----------------------------
(***************************************************************************)
(* Content Transformation & Review Engine of Magic-Replace-Backend.        *)
(*                                                                         *)
(* JavaScript strings are sequences of one-character strings, so that      *)
(* toLowerCase, includes, replace, split, JSON.parse and JSON.stringify    *)
(* are computed character by character.  JavaScript values are tagged      *)
(* records; objects keep their keys in insertion order.                    *)
(***************************************************************************)
EXTENDS Integers, Sequences, FiniteSets, TLC

VARIABLES
  \* ---- apply (src/unnamed/part_002) ----
  pc,          \* position of the apply handler
  req,         \* req.body: [contentTypeUid, changes]
  store,       \* the record store: entry uid -> document
  brandkit,    \* the ruleset getRules() returned
  groups,      \* Object.entries(changesByEntry)
  gi,          \* index of the record group being processed
  ci,          \* index of the next change of that group
  entryData,   \* the in-memory copy of the fetched record
  entryTitle,  \* let entryTitle
  results,     \* const results = []
  response,    \* what res.json / res.status(..).json sent
  calls,       \* the calls made to the collaborators, in order
  editLog,     \* per field edit: written or skipped (the console lines)
  pathErrors,  \* the console.error lines of setNestedValue: failing key and path
  \* ---- getDifferences and the classification (src/config/index.js) ----
  dPc,         \* "input", "diffed" or "classified"
  dOriginal,   \* getDifferences' original
  dUpdated,    \* getDifferences' updated
  dSameRef,    \* original and updated are one and the same object
  dRules,      \* the ruleset of the classification
  dDiffs,      \* const differences
  dChanges,    \* const changes
  \* ---- traverseAndModify and the replacers (src/config/index.js) ----
  rPc,         \* "build", "run" or "done"
  rRequest,    \* the ruleset, query and replaceWith the replacers close over
  rReplacers,  \* const replacers
  rData,       \* traverseAndModify's data
  rOut,        \* what traverseAndModify returned
  \* ---- sanitizeObject on an object graph (src/config/index.js) ----
  gNodes,      \* the objects and arrays of the input, by identity
  gRoot,       \* sanitizeObject's data
  sPc,         \* "call", "walk" or "done"
  visited,     \* the WeakMap: input node -> its copy (0: not set)
  sStack,      \* the calls of sanitizeObject in progress
  sCopies,     \* the objects and arrays sanitizeObject created
  sResult,     \* what the outermost call returned
  sSteps,      \* calls made and returned so far
  \* ---- traverseAndModify on an object graph (src/config/index.js) ----
  tNodes,      \* the objects and arrays of the input, by identity
  tRoot,       \* traverseAndModify's data
  tReplacers,  \* traverseAndModify's replacers
  tPc,         \* "call", "walk" or "done"
  seen,        \* the WeakSet, in the order of its add calls
  tStack,      \* the calls of traverseAndModify in progress
  tCopies,     \* the objects and arrays traverseAndModify created
  tResult,     \* what the outermost call returned
  tSteps,      \* calls made and returned so far
  \* ---- makeReplacementContextual (src/services/geminiService.js) ----
  fPc,         \* "call", "parse", "repair" or "done"
  fInput,      \* modifiedJsonString
  fGemini,     \* how model.generateContent and response.text() completed
  fResponse,   \* geminiResponse
  fSanitized,  \* sanitized
  fRepair,     \* how jsonrepair(sanitized) completed
  fResult,     \* how makeReplacementContextual completed
  \* ---- preview (src/config/index.js) ----
  vPc,         \* "start", "rules", "fetch", "traditional", "smart" or "done"
  vReq,        \* req.query
  vRules,      \* brandkit
  vEntries,    \* originalEntries
  vIndex,      \* the entry the loop is at
  vResults,    \* previewResults
  vCalls,      \* the services called so far
  vResponse,   \* the status and body sent
  \* ---- one fetched entry through preview (src/config/index.js) ----
  ePc,         \* "clone", "traverse" or "done"
  eResponse,   \* the status and, for status 200, the changes of the entry
  \* ---- scan (src/controllers/scanController.js) ----
  nPc,         \* "start", "fetch", "scan" or "done"
  nReq,        \* req.query
  nEntries,    \* entries
  nIndex,      \* the entry the forEach is at
  nMatches,    \* matches
  nCalls,      \* the services called so far
  nResponse,   \* the status and body sent
  \* ---- one path written in its two notations (setNestedValue) ----
  hDoc,        \* the document before the write
  hSegs,       \* the segments of the path: keys and indices
  hValue,      \* the value written
  hBracket,    \* <<>>, or the outcome of the write through a[0].b
  hDot,        \* <<>>, or the outcome of the write through a.0.b
  \* ---- getRules (brandkit service, src/services/contentstackService.js) ----
  kPc,         \* "start", "remote", "file" or "done"
  kEnv,        \* which of BRANDKIT_API_URL, BRANDKIT_API_KEY, BRANDKIT_ID are set
  kRemote,     \* what axios.get does: it throws, or answers with response.data
  kFile,       \* brandkit.json: whether it can be read, and its text
  kResult,     \* <<>>, or the ruleset getRules returned
  \* ---- a preview whose changes are all sent to apply ----
  oPc,         \* "replace", "diff", "apply" or "done"
  oQuery,      \* query and replaceWith of the preview request
  oOriginal,   \* originalEntry
  oUpdated,    \* updatedEntry
  oChanges,    \* the differences of the preview, sent back as changes
  oIndex,      \* the change the loop of apply is at
  oData        \* entryData of apply: the entry fetched afresh, then edited

applyVars == <<pc, req, store, brandkit, groups, gi, ci, entryData,
               entryTitle, results, response, calls, editLog, pathErrors>>

diffVars == <<dPc, dOriginal, dUpdated, dSameRef, dRules, dDiffs, dChanges>>

replaceVars == <<rPc, rRequest, rReplacers, rData, rOut>>

sanitizeVars == <<gNodes, gRoot, sPc, visited, sStack, sCopies, sResult, sSteps>>

traverseVars == <<tNodes, tRoot, tReplacers, tPc, seen, tStack, tCopies, tResult, tSteps>>

refineVars == <<fPc, fInput, fGemini, fResponse, fSanitized, fRepair, fResult>>

previewVars == <<vPc, vReq, vRules, vEntries, vIndex, vResults, vCalls, vResponse>>

entryVars == <<ePc, eResponse>>

scanVars == <<nPc, nReq, nEntries, nIndex, nMatches, nCalls, nResponse>>

pathVars == <<hDoc, hSegs, hValue, hBracket, hDot>>

rulesVars == <<kPc, kEnv, kRemote, kFile, kResult>>

roundVars == <<oPc, oQuery, oOriginal, oUpdated, oChanges, oIndex, oData>>

vars ==
  <<applyVars, diffVars, replaceVars, sanitizeVars, traverseVars, refineVars, previewVars,
    entryVars, scanVars, pathVars, rulesVars, roundVars>>

(***************************************************************************)
(* Text: JavaScript strings as sequences of characters                     *)
(***************************************************************************)
Digits == <<"0", "1", "2", "3", "4", "5", "6", "7", "8", "9">>

DigitSet == {Digits[i] : i \in 1..10}

IsDigit(c) == c \in DigitSet

DigitVal(c) == (CHOOSE i \in 1..10 : Digits[i] = c) - 1

RECURSIVE NatToText(_)
NatToText(n) ==
  IF n < 10 THEN <<Digits[n + 1]>>
  ELSE NatToText(n \div 10) \o <<Digits[(n % 10) + 1]>>

\* String(n) of an integer
NumToText(n) == IF n < 0 THEN <<"-">> \o NatToText(0 - n) ELSE NatToText(n)

RECURSIVE TextToNat(_)
TextToNat(s) ==
  IF Len(s) = 0 THEN 0
  ELSE 10 * TextToNat(SubSeq(s, 1, Len(s) - 1)) + DigitVal(s[Len(s)])

UpperChars == <<"A", "B", "C", "D", "E", "F", "G", "H", "I", "J", "K", "L", "M",
                "N", "O", "P", "Q", "R", "S", "T", "U", "V", "W", "X", "Y", "Z">>

LowerChars == <<"a", "b", "c", "d", "e", "f", "g", "h", "i", "j", "k", "l", "m",
                "n", "o", "p", "q", "r", "s", "t", "u", "v", "w", "x", "y", "z">>

UpperSet == {UpperChars[i] : i \in 1..26}

LowerSet == {LowerChars[i] : i \in 1..26}

toLowerChar(c) ==
  IF c \in UpperSet
  THEN LowerChars[CHOOSE i \in 1..26 : UpperChars[i] = c]
  ELSE c

\* String.prototype.toLowerCase
toLowerCase(s) == [i \in 1..Len(s) |-> toLowerChar(s[i])]

\* s.startsWith(sub, i - 1): sub occurs in s at (1-based) position i
OccursAt(s, sub, i) ==
  /\ i >= 1
  /\ i + Len(sub) - 1 <= Len(s)
  /\ SubSeq(s, i, i + Len(sub) - 1) = sub

\* String.prototype.includes
includes(s, sub) == \E i \in 1..(Len(s) + 1) : OccursAt(s, sub, i)

\* String.prototype.indexOf, 0-based, -1 when absent
indexOf(s, c) ==
  IF \E i \in 1..Len(s) : s[i] = c
  THEN (CHOOSE i \in 1..Len(s) : s[i] = c /\ \A j \in 1..(i - 1) : s[j] # c) - 1
  ELSE -1

\* String.prototype.lastIndexOf, 0-based, -1 when absent
lastIndexOf(s, c) ==
  IF \E i \in 1..Len(s) : s[i] = c
  THEN (CHOOSE i \in 1..Len(s) : s[i] = c /\ \A j \in (i + 1)..Len(s) : s[j] # c) - 1
  ELSE -1

IsWs(c) == c \in {" ", "\n", "\t", "\r"}

RECURSIVE trimStart(_)
trimStart(s) == IF Len(s) > 0 /\ IsWs(s[1]) THEN trimStart(Tail(s)) ELSE s

RECURSIVE trimEnd(_)
trimEnd(s) ==
  IF Len(s) > 0 /\ IsWs(s[Len(s)]) THEN trimEnd(SubSeq(s, 1, Len(s) - 1)) ELSE s

\* String.prototype.trim
trim(s) == trimEnd(trimStart(s))

Range(f) == {f[i] : i \in DOMAIN f}

\* The concatenation of a sequence of texts
RECURSIVE Concat(_)
Concat(ss) == IF Len(ss) = 0 THEN <<>> ELSE Head(ss) \o Concat(Tail(ss))

(***************************************************************************)
(* JavaScript values                                                       *)
(***************************************************************************)
Str(s) == [t |-> "str", s |-> s]

Num(n) == [t |-> "num", n |-> n]

Bool(b) == [t |-> "bool", b |-> b]

Null == [t |-> "null"]

Undef == [t |-> "undef"]

Fn == [t |-> "fn"]

Arr(a) == [t |-> "arr", a |-> a]

\* o: a sequence of [k |-> key text, v |-> value], in insertion order
Obj(o) == [t |-> "obj", o |-> o]

Prop(k, v) == [k |-> k, v |-> v]

IsStr(v) == v.t = "str"

IsArr(v) == v.t = "arr"

IsObj(v) == v.t = "obj"

\* typeof v === "object" && v !== null
IsContainer(v) == v.t \in {"arr", "obj"}

\* ToBoolean
Truthy(v) ==
  CASE v.t = "str" -> Len(v.s) > 0
    [] v.t = "num" -> v.n # 0
    [] v.t = "bool" -> v.b
    [] v.t \in {"null", "undef"} -> FALSE
    [] OTHER -> TRUE

\* String(v) of a primitive
ToStringJS(v) ==
  CASE v.t = "str" -> v.s
    [] v.t = "num" -> NumToText(v.n)
    [] v.t = "bool" -> IF v.b THEN <<"t", "r", "u", "e">> ELSE <<"f", "a", "l", "s", "e">>
    [] v.t = "null" -> <<"n", "u", "l", "l">>
    [] v.t = "undef" -> <<"u", "n", "d", "e", "f", "i", "n", "e", "d">>
    [] OTHER -> <<"[", "o", "b", "j", "e", "c", "t", " ", "O", "b", "j", "e", "c", "t", "]">>

\* a || b
OrElse(a, b) == IF Truthy(a) THEN a ELSE b

HasKey(o, k) == \E i \in 1..Len(o) : o[i].k = k

KeyIndex(o, k) == CHOOSE i \in 1..Len(o) : o[i].k = k

\* An array index in canonical form: "0", "1", ..., no leading zero
IsIndexKey(k) ==
  /\ Len(k) > 0
  /\ \A i \in 1..Len(k) : IsDigit(k[i])
  /\ (Len(k) > 1 => k[1] # "0")

\* v[key] for an own property of an object, an element of an array or a
\* character of a string
GetProp(v, key) ==
  CASE v.t = "obj" -> IF HasKey(v.o, key) THEN v.o[KeyIndex(v.o, key)].v ELSE Undef
    [] v.t = "arr" ->
         IF IsIndexKey(key) /\ TextToNat(key) < Len(v.a)
         THEN v.a[TextToNat(key) + 1] ELSE Undef
    [] v.t = "str" ->
         IF IsIndexKey(key) /\ TextToNat(key) < Len(v.s)
         THEN Str(<<v.s[TextToNat(key) + 1]>>) ELSE Undef
    [] OTHER -> Undef

\* v[key] = x, as a new value.  An existing property keeps its position, a new
\* one is appended; an index past the end of an array leaves holes; a write
\* to a property of a primitive is silently ignored (the module is not strict).
SetProp(v, key, x) ==
  CASE v.t = "obj" ->
         IF HasKey(v.o, key)
         THEN Obj([v.o EXCEPT ![KeyIndex(v.o, key)] = Prop(key, x)])
         ELSE Obj(Append(v.o, Prop(key, x)))
    [] v.t = "arr" ->
         IF IsIndexKey(key)
         THEN LET n == TextToNat(key) IN
              Arr([i \in 1..(IF n < Len(v.a) THEN Len(v.a) ELSE n + 1) |->
                     IF i = n + 1 THEN x
                     ELSE IF i <= Len(v.a) THEN v.a[i] ELSE Undef])
         ELSE v
    [] OTHER -> v

(***************************************************************************)
(* JSON.parse on a text                                                    *)
(***************************************************************************)
ParseFail == [ok |-> FALSE, v |-> Undef, i |-> 0]

ParseOk(v, i) == [ok |-> TRUE, v |-> v, i |-> i]

RECURSIVE skipWs(_, _)
skipWs(s, i) == IF i <= Len(s) /\ IsWs(s[i]) THEN skipWs(s, i + 1) ELSE i

HexChars == <<"0", "1", "2", "3", "4", "5", "6", "7", "8", "9",
              "a", "b", "c", "d", "e", "f">>

IsHex(c) == \E i \in 1..16 : HexChars[i] = toLowerChar(c)

HexVal(c) == (CHOOSE i \in 1..16 : HexChars[i] = toLowerChar(c)) - 1

\* String.fromCharCode for the code points of the letters, the digits, the
\* space, the quote and the dollar sign; any other code point is the one
\* character "<u>".
CharOfCode(n) ==
  CASE n \in 48..57 -> Digits[n - 47]
    [] n \in 65..90 -> UpperChars[n - 64]
    [] n \in 97..122 -> LowerChars[n - 96]
    [] n = 32 -> " "
    [] n = 34 -> "\""
    [] n = 36 -> "$"
    [] OTHER -> "<u>"

\* The characters of a JSON string literal from position i (after the opening
\* quote) to its closing quote, escapes decoded.
RECURSIVE parseChars(_, _, _)
parseChars(s, i, acc) ==
  IF i > Len(s) THEN ParseFail
  ELSE IF s[i] = "\"" THEN ParseOk(acc, i + 1)
  ELSE IF s[i] \in {"\n", "\t", "\r", "\f"} THEN ParseFail
  ELSE IF s[i] = "\\" THEN
    IF i + 1 > Len(s) THEN ParseFail
    ELSE LET e == s[i + 1] IN
      CASE e \in {"\"", "\\", "/"} -> parseChars(s, i + 2, Append(acc, e))
        [] e = "n" -> parseChars(s, i + 2, Append(acc, "\n"))
        [] e = "t" -> parseChars(s, i + 2, Append(acc, "\t"))
        [] e = "r" -> parseChars(s, i + 2, Append(acc, "\r"))
        [] e = "f" -> parseChars(s, i + 2, Append(acc, "\f"))
        [] e = "b" -> parseChars(s, i + 2, Append(acc, "<bs>"))
        [] e = "u" ->
             IF i + 5 <= Len(s) /\ \A j \in (i + 2)..(i + 5) : IsHex(s[j])
             THEN parseChars(s, i + 6, Append(acc,
                    CharOfCode(4096 * HexVal(s[i + 2]) + 256 * HexVal(s[i + 3])
                               + 16 * HexVal(s[i + 4]) + HexVal(s[i + 5]))))
             ELSE ParseFail
        [] OTHER -> ParseFail
  ELSE parseChars(s, i + 1, Append(acc, s[i]))

\* The end (exclusive) of the run of digits that starts at i
RECURSIVE digitsEnd(_, _)
digitsEnd(s, i) == IF i <= Len(s) /\ IsDigit(s[i]) THEN digitsEnd(s, i + 1) ELSE i

\* A JSON integer at i: -? (0 | [1-9][0-9]*)
parseNumber(s, i) ==
  LET neg == s[i] = "-"
      d == IF neg THEN i + 1 ELSE i
      e == IF d <= Len(s) /\ s[d] = "0" THEN d + 1 ELSE digitsEnd(s, d)
  IN IF e = d THEN ParseFail
     ELSE LET n == TextToNat(SubSeq(s, d, e - 1)) IN
          ParseOk(Num(IF neg THEN 0 - n ELSE n), e)

RECURSIVE parseValue(_, _), parseElements(_, _, _), parseMembers(_, _, _)
parseValue(s, i0) ==
  LET i == skipWs(s, i0) IN
  IF i > Len(s) THEN ParseFail
  ELSE IF s[i] = "{" THEN
    LET j == skipWs(s, i + 1) IN
    IF j <= Len(s) /\ s[j] = "}" THEN ParseOk(Obj(<<>>), j + 1)
    ELSE parseMembers(s, j, Obj(<<>>))
  ELSE IF s[i] = "[" THEN
    LET j == skipWs(s, i + 1) IN
    IF j <= Len(s) /\ s[j] = "]" THEN ParseOk(Arr(<<>>), j + 1)
    ELSE parseElements(s, j, <<>>)
  ELSE IF s[i] = "\"" THEN
    LET r == parseChars(s, i + 1, <<>>) IN
    IF r.ok THEN ParseOk(Str(r.v), r.i) ELSE ParseFail
  ELSE IF OccursAt(s, <<"t", "r", "u", "e">>, i) THEN ParseOk(Bool(TRUE), i + 4)
  ELSE IF OccursAt(s, <<"f", "a", "l", "s", "e">>, i) THEN ParseOk(Bool(FALSE), i + 5)
  ELSE IF OccursAt(s, <<"n", "u", "l", "l">>, i) THEN ParseOk(Null, i + 4)
  ELSE IF s[i] = "-" \/ IsDigit(s[i]) THEN parseNumber(s, i)
  ELSE ParseFail

parseElements(s, i, acc) ==
  LET r == parseValue(s, i) IN
  IF ~r.ok THEN ParseFail
  ELSE LET j == skipWs(s, r.i) IN
    IF j > Len(s) THEN ParseFail
    ELSE IF s[j] = "," THEN parseElements(s, j + 1, Append(acc, r.v))
    ELSE IF s[j] = "]" THEN ParseOk(Arr(Append(acc, r.v)), j + 1)
    ELSE ParseFail

parseMembers(s, i, acc) ==
  LET j == skipWs(s, i) IN
  IF j > Len(s) \/ s[j] # "\"" THEN ParseFail
  ELSE LET k == parseChars(s, j + 1, <<>>) IN
    IF ~k.ok THEN ParseFail
    ELSE LET c == skipWs(s, k.i) IN
      IF c > Len(s) \/ s[c] # ":" THEN ParseFail
      ELSE LET r == parseValue(s, c + 1) IN
        IF ~r.ok THEN ParseFail
        ELSE LET e == skipWs(s, r.i)
                 acc2 == SetProp(acc, k.v, r.v)
             IN IF e > Len(s) THEN ParseFail
                ELSE IF s[e] = "," THEN parseMembers(s, e + 1, acc2)
                ELSE IF s[e] = "}" THEN ParseOk(acc2, e + 1)
                ELSE ParseFail

\* JSON.parse(text): ok is FALSE where JSON.parse throws a SyntaxError
JSONparse(s) ==
  LET r == parseValue(s, 1) IN
  IF r.ok /\ skipWs(s, r.i) = Len(s) + 1 THEN [ok |-> TRUE, v |-> r.v]
  ELSE [ok |-> FALSE, v |-> Undef]

(***************************************************************************)
(* setNestedValue (src/unnamed/part_002)                                   *)
(***************************************************************************)
\* path.replace(/\[(\d+)\]/g, ".$1")
RECURSIVE bracketsToDots(_)
bracketsToDots(path) ==
  IF Len(path) = 0 THEN <<>>
  ELSE LET e == digitsEnd(path, 2) IN
    IF path[1] = "[" /\ e > 2 /\ e <= Len(path) /\ path[e] = "]"
    THEN <<".">> \o SubSeq(path, 2, e - 1) \o bracketsToDots(SubSeq(path, e + 1, Len(path)))
    ELSE <<path[1]>> \o bracketsToDots(Tail(path))

\* String.prototype.split(sep) for a one-character separator
RECURSIVE split(_, _)
split(s, sep) ==
  LET i == indexOf(s, sep) IN
  IF i = -1 THEN <<s>>
  ELSE <<SubSeq(s, 1, i)>> \o split(SubSeq(s, i + 2, Len(s)), sep)

pathKeys(path) == split(bracketsToDots(path), ".")

\* try { current[finalKey] = JSON.parse(value) } catch (e) { current[finalKey] = value }
parsedOrRaw(value) ==
  LET r == JSONparse(ToStringJS(value)) IN IF r.ok THEN r.v ELSE value

\* The loop over keys and the final assignment, on the value `current`; the
\* result is the value after the write and whether the traversal stopped
\* at a missing or null segment.
RECURSIVE setAlong(_, _, _)
setAlong(current, keys, value) ==
  IF Len(keys) = 1
  THEN [doc |-> SetProp(current, keys[1], parsedOrRaw(value)), failed |-> FALSE]
  ELSE LET child == GetProp(current, keys[1]) IN
    IF child.t \in {"undef", "null"}
    THEN [doc |-> current, failed |-> TRUE]
    ELSE LET r == setAlong(child, Tail(keys), value) IN
      [doc |-> IF IsContainer(current) THEN SetProp(current, keys[1], r.doc) ELSE current,
       failed |-> r.failed]

\* (mutant) a missing or null segment is created as an empty object and the
\* write goes on
RECURSIVE setAlongCreating(_, _, _)
setAlongCreating(current, keys, value) ==
  IF Len(keys) = 1
  THEN [doc |-> SetProp(current, keys[1], parsedOrRaw(value)), failed |-> FALSE]
  ELSE LET found == GetProp(current, keys[1])
           child == IF found.t \in {"undef", "null"} THEN Obj(<<>>) ELSE found
           r == setAlongCreating(child, Tail(keys), value)
       IN [doc |-> IF IsContainer(current) THEN SetProp(current, keys[1], r.doc) ELSE current,
           failed |-> r.failed]

setNestedValueCreating(obj, path, value) == setAlongCreating(obj, pathKeys(path), value)

setNestedValue(obj, path, value) == setAlong(obj, pathKeys(path), value)

\* lines 12-17: the key at which the loop stops, <<>> when it does not stop
RECURSIVE failedKey(_, _)
failedKey(current, keys) ==
  IF Len(keys) = 1 THEN <<>>
  ELSE IF GetProp(current, keys[1]).t \in {"undef", "null"} THEN <<keys[1]>>
  ELSE failedKey(GetProp(current, keys[1]), Tail(keys))

\* lines 13-15: console.error(`Path traversal failed at key: '${key}' in
\* path: '${path}'...`), the lines written by one call
traversalFailure(obj, path) ==
  [i \in 1..Len(failedKey(obj, pathKeys(path))) |->
     [key |-> failedKey(obj, pathKeys(path))[i], path |-> path]]

(***************************************************************************)
(* The record store and the policy ruleset seen by apply                   *)
(***************************************************************************)
kUid == <<"u", "i", "d">>

kTitle == <<"t", "i", "t", "l", "e">>

kBody == <<"b", "o", "d", "y">>

kTags == <<"t", "a", "g", "s">>

kMeta == <<"m", "e", "t", "a">>

\* The records of the content type: e1 and e2 exist, any other uid does not
StoreDocs ==
  [e1 |-> Obj(<<Prop(kUid, Str(<<"e", "1">>)),
                Prop(kTitle, Str(<<"T">>)),
                Prop(kBody, Str(<<"o", "l", "d">>)),
                Prop(kTags, Arr(<<Str(<<"p">>), Str(<<"q">>)>>)),
                Prop(kMeta, Obj(<<Prop(<<"k">>, Str(<<"v">>))>>))>>),
   e2 |-> Obj(<<Prop(kUid, Str(<<"e", "2">>)),
                Prop(kBody, Str(<<"y">>))>>)]

\* The rulesets getRules() may return
RulesetPool ==
  {[approvedTerms |-> <<>>, bannedTerms |-> <<>>],
   [approvedTerms |-> <<>>, bannedTerms |-> << <<"B", "a", "d">> >>],
   [approvedTerms |-> <<>>, bannedTerms |-> << <<"z", "z">>, <<"A", "d">> >>]}

Change(uid, field, newValue) == [entryUid |-> uid, field |-> field, newValue |-> newValue]

\* The change requests a caller may send
ChangePool ==
  {Change("e1", kBody, Str(<<"n", "e", "w">>)),
   Change("e1", kTags \o <<"[", "0", "]">>, Str(<<"b", "A", "d", "!">>)),
   Change("e1", kMeta \o <<".", "k">>, Str(<<"7">>)),
   Change("e2", kBody, Str(<<"z">>)),
   Change("e2", <<"n", "o", ".", "x">>, Str(<<"w">>)),
   Change("e2", kBody, Undef),
   Change("e1", kBody, Str(<<"n", "2">>)),
   Change("e1", kBody, Str(<<"\"", "\\", "u", "0", "0", "4", "1", "d", "\"">>)),
   Change("e3", kBody, Str(<<"q">>))}

MaxChanges == 3

ChangeLists == UNION {[1..n -> ChangePool] : n \in 0..MaxChanges}

(***************************************************************************)
(* apply (src/unnamed/part_002)                                            *)
(***************************************************************************)
\* change && change.entryUid && change.field && change.newValue !== undefined
validChange(change) ==
  /\ change.entryUid # ""
  /\ Len(change.field) > 0
  /\ change.newValue # Undef

\* changes.reduce(...): the changes grouped by entry uid, groups in the order
\* in which their uid first appears
RECURSIVE groupChanges(_, _)
groupChanges(changes, acc) ==
  IF Len(changes) = 0 THEN acc
  ELSE LET change == Head(changes) IN
    IF ~validChange(change) THEN groupChanges(Tail(changes), acc)
    ELSE IF \E i \in 1..Len(acc) : acc[i].entryUid = change.entryUid
    THEN LET i == CHOOSE i \in 1..Len(acc) : acc[i].entryUid = change.entryUid IN
         groupChanges(Tail(changes),
                      [acc EXCEPT ![i].changes = Append(@, change)])
    ELSE groupChanges(Tail(changes),
                      Append(acc, [entryUid |-> change.entryUid, changes |-> <<change>>]))

\* (mutant) the banned terms are compared as written, not lower-cased
isBannedValueCaseSensitive(rules, newValue) ==
  LET lowerCaseValue == toLowerCase(ToStringJS(OrElse(newValue, Str(<<>>)))) IN
  \E i \in 1..Len(rules.bannedTerms) :
    includes(lowerCaseValue, rules.bannedTerms[i])

\* brandkit.bannedTerms.some((term) => lowerCaseValue.includes(term.toLowerCase()))
\* for lowerCaseValue = String(change.newValue || "").toLowerCase()
isBannedValue(rules, newValue) ==
  LET lowerCaseValue == toLowerCase(ToStringJS(OrElse(newValue, Str(<<>>)))) IN
  \E i \in 1..Len(rules.bannedTerms) :
    includes(lowerCaseValue, toLowerCase(rules.bannedTerms[i]))

\* contentstackService.getEntriesByIds(contentTypeUid, [entryUid])
getEntriesByIds(st, uid) == IF uid \in DOMAIN st THEN <<st[uid]>> ELSE <<>>

\* contentstackService.updateEntry: every own key of updatedData but uid is
\* copied onto the stored entry
RECURSIVE copyKeys(_, _)
copyKeys(entry, props) ==
  IF Len(props) = 0 THEN entry
  ELSE copyKeys(IF Head(props).k = kUid THEN entry
                ELSE SetProp(entry, Head(props).k, Head(props).v),
                Tail(props))

updateEntry(st, uid, updatedData) ==
  [st EXCEPT ![uid] = copyKeys(st[uid], updatedData.o)]

NoDoc == [t |-> "none"]

\* One call to a collaborator and how it ended: ok, throw, or empty (no entry)
Call(op, uid, outcome) == [op |-> op, uid |-> uid, outcome |-> outcome]

ApplyInit ==
  /\ pc = "start"
  /\ req \in [contentTypeUid : {"", "blog"}, changes : ChangeLists]
  /\ store = StoreDocs
  /\ brandkit \in RulesetPool
  /\ groups = <<>>
  /\ gi = 0
  /\ ci = 0
  /\ entryData = NoDoc
  /\ entryTitle = <<>>
  /\ results = <<>>
  /\ response = [status |-> 0]
  /\ calls = <<>>
  /\ editLog = <<>>
  /\ pathErrors = <<>>

\* lines 36-42: the request is refused before any work
ApplyReject ==
  /\ pc = "start"
  /\ (req.contentTypeUid = "" \/ Len(req.changes) = 0)
  /\ response' = [status |-> 400]
  /\ pc' = "done"
  /\ UNCHANGED <<req, store, brandkit, groups, gi, ci, entryData, entryTitle,
                 results, calls, editLog, pathErrors>>

\* lines 44-66: getRules, the grouping, the entry into the loop
ApplyStart ==
  /\ pc = "start"
  /\ req.contentTypeUid # ""
  /\ Len(req.changes) > 0
  /\ calls' = Append(calls, Call("getRules", "", "ok"))
  /\ groups' = groupChanges(req.changes, <<>>)
  /\ gi' = 1
  /\ pc' = IF Len(groups') = 0 THEN "respond" ELSE "fetch"
  /\ UNCHANGED <<req, store, brandkit, ci, entryData, entryTitle, results,
                 response, editLog, pathErrors>>

\* The end of one iteration of the for loop over the groups
NextGroupPc == IF gi = Len(groups) THEN "respond" ELSE "fetch"

\* lines 118-129: the catch of one group
Failed(uid, title, error) ==
  [entryUid |-> uid, title |-> title, status |-> "failed", error |-> error]

TitleUnknown == <<"(", "t", "i", "t", "l", "e", " ", "u", "n", "k", "n", "o", "w", "n", ")">>

NoTitle == <<"(", "n", "o", " ", "t", "i", "t", "l", "e", ")">>

\* (mutant) a failed record ends the loop
AfterFailureAbort == "respond"

\* lines 118-129: the catch of one group records the failure and the loop
\* goes on with the next group
AfterFailurePc == NextGroupPc

\* lines 67-85: the record is fetched; the call may throw, and an entry the
\* store does not hold is an error of this group
ApplyFetch ==
  /\ pc = "fetch"
  /\ LET uid == groups[gi].entryUid IN
     \E thrown \in BOOLEAN :
       IF thrown
       THEN /\ calls' = Append(calls, Call("fetch", uid, "throw"))
            /\ results' = Append(results, Failed(uid, TitleUnknown, "fetch failed"))
            /\ pc' = AfterFailurePc
            /\ gi' = gi + 1
            /\ UNCHANGED <<entryData, entryTitle, ci>>
       ELSE LET items == getEntriesByIds(store, uid) IN
            IF Len(items) = 0
            THEN /\ calls' = Append(calls, Call("fetch", uid, "empty"))
                 /\ results' = Append(results, Failed(uid, TitleUnknown, "not found"))
                 /\ pc' = AfterFailurePc
                 /\ gi' = gi + 1
                 /\ UNCHANGED <<entryData, entryTitle, ci>>
            ELSE /\ calls' = Append(calls, Call("fetch", uid, "ok"))
                 /\ entryData' = items[1]
                 /\ entryTitle' = ToStringJS(OrElse(GetProp(items[1], kTitle), Str(NoTitle)))
                 /\ ci' = 1
                 /\ pc' = "edit"
                 /\ UNCHANGED <<results, gi>>
  /\ UNCHANGED <<req, store, brandkit, groups, response, editLog, pathErrors>>

\* lines 88-102: one iteration of the loop over the changes of the group
ApplyEdit ==
  /\ pc = "edit"
  /\ ci <= Len(groups[gi].changes)
  /\ LET change == groups[gi].changes[ci] IN
     IF isBannedValue(brandkit, change.newValue)
     THEN /\ editLog' = Append(editLog, [uid |-> change.entryUid, n |-> ci, did |-> "skipped"])
          /\ UNCHANGED <<entryData, pathErrors>>
     ELSE /\ entryData' = setNestedValue(entryData, change.field, change.newValue).doc
          /\ editLog' = Append(editLog, [uid |-> change.entryUid, n |-> ci, did |-> "set"])
          /\ pathErrors' = pathErrors \o traversalFailure(entryData, change.field)
  /\ ci' = ci + 1
  /\ UNCHANGED <<pc, req, store, brandkit, groups, gi, entryTitle, results,
                 response, calls>>

\* (mutant) the update follows the first edit of the record
afterFirstEdit == ci > 1

\* line 88: the loop over the changes of the group has ended
afterLastEdit == ci > Len(groups[gi].changes)

\* lines 104-117: the single update of the record; the call may throw
ApplyPersist ==
  /\ pc = "edit"
  /\ afterLastEdit
  /\ LET uid == groups[gi].entryUid IN
     \E thrown \in BOOLEAN :
       IF thrown
       THEN /\ calls' = Append(calls, Call("persist", uid, "throw"))
            /\ results' = Append(results, Failed(uid, entryTitle, "persist failed"))
            /\ pc' = AfterFailurePc
            /\ UNCHANGED store
       ELSE /\ calls' = Append(calls, Call("persist", uid, "ok"))
            /\ store' = updateEntry(store, uid, entryData)
            /\ results' = Append(results,
                 [entryUid |-> uid, title |-> entryTitle, status |-> "updated",
                  changesApplied |-> Len(groups[gi].changes)])
            /\ pc' = NextGroupPc
  /\ gi' = gi + 1
  /\ UNCHANGED <<req, brandkit, groups, ci, entryData, entryTitle, response, editLog, pathErrors>>

CountStatus(rs, status) == Cardinality({i \in 1..Len(rs) : rs[i].status = status})

\* lines 132-138
ApplyRespond ==
  /\ pc = "respond"
  /\ response' = [status |-> 200,
                  totalProcessed |-> Len(groups),
                  totalUpdated |-> CountStatus(results, "updated"),
                  totalFailed |-> CountStatus(results, "failed"),
                  results |-> results]
  /\ pc' = "done"
  /\ UNCHANGED <<req, store, brandkit, groups, gi, ci, entryData, entryTitle,
                 results, calls, editLog, pathErrors>>

ApplyIdle ==
  /\ pc = "idle"
  /\ req = [contentTypeUid |-> "", changes |-> <<>>]
  /\ store = StoreDocs
  /\ brandkit = [approvedTerms |-> <<>>, bannedTerms |-> <<>>]
  /\ groups = <<>>
  /\ gi = 0
  /\ ci = 0
  /\ entryData = NoDoc
  /\ entryTitle = <<>>
  /\ results = <<>>
  /\ response = [status |-> 0]
  /\ calls = <<>>
  /\ editLog = <<>>
  /\ pathErrors = <<>>


(***************************************************************************)
(* JSON.stringify(value, null, 2)                                          *)
(***************************************************************************)
\* The text of one character inside a JSON string literal
quoteChar(c) ==
  CASE c = "\"" -> <<"\\", "\"">>
    [] c = "\\" -> <<"\\", "\\">>
    [] c = "\n" -> <<"\\", "n">>
    [] c = "\t" -> <<"\\", "t">>
    [] c = "\r" -> <<"\\", "r">>
    [] c = "\f" -> <<"\\", "f">>
    [] c = "<bs>" -> <<"\\", "b">>
    [] OTHER -> <<c>>

quote(s) == <<"\"">> \o Concat([i \in 1..Len(s) |-> quoteChar(s[i])]) \o <<"\"">>

spaces(n) == [i \in 1..n |-> " "]

\* The texts of a sequence joined by ",\n"
RECURSIVE joinLines(_)
joinLines(ts) ==
  IF Len(ts) = 0 THEN <<>>
  ELSE IF Len(ts) = 1 THEN ts[1]
  ELSE ts[1] \o <<",", "\n">> \o joinLines(Tail(ts))

\* The properties JSON.stringify writes: not those whose value is undefined
\* or a function
Serializable(v) == v.t \notin {"undef", "fn"}

RECURSIVE stringify(_, _)
stringify(v, ind) ==
  CASE v.t = "str" -> quote(v.s)
    [] v.t = "num" -> NumToText(v.n)
    [] v.t = "bool" -> ToStringJS(v)
    [] v.t = "arr" ->
         IF Len(v.a) = 0 THEN <<"[", "]">>
         ELSE <<"[", "\n">>
              \o joinLines([i \in 1..Len(v.a) |->
                   spaces(ind + 2) \o stringify(v.a[i], ind + 2)])
              \o <<"\n">> \o spaces(ind) \o <<"]">>
    [] v.t = "obj" ->
         LET ps == SelectSeq(v.o, LAMBDA p : Serializable(p.v)) IN
         IF Len(ps) = 0 THEN <<"{", "}">>
         ELSE <<"{", "\n">>
              \o joinLines([i \in 1..Len(ps) |->
                   spaces(ind + 2) \o quote(ps[i].k) \o <<":", " ">>
                   \o stringify(ps[i].v, ind + 2)])
              \o <<"\n">> \o spaces(ind) \o <<"}">>
    [] OTHER -> <<"n", "u", "l", "l">>

JSONstringify(v) == stringify(v, 0)

(***************************************************************************)
(* formatValueForDiff and getDifferences (src/config/index.js)             *)
(***************************************************************************)
NotSet == <<"(", "n", "o", "t", " ", "s", "e", "t", ")">>

Empty == <<"(", "e", "m", "p", "t", "y", ")">>

EmptyString == <<"(", "e", "m", "p", "t", "y", " ", "s", "t", "r", "i", "n", "g", ")">>

\* Object.keys(value)
ObjectKeys(v) ==
  CASE v.t = "obj" -> [i \in 1..Len(v.o) |-> v.o[i].k]
    [] v.t = "arr" -> [i \in 1..Len(v.a) |-> NatToText(i - 1)]
    [] OTHER -> <<>>

formatValueForDiff(value) ==
  IF value.t = "undef" THEN NotSet
  ELSE IF value.t = "null" THEN Empty
  ELSE IF value.t = "str" /\ trim(value.s) = <<>> THEN EmptyString
  ELSE IF IsContainer(value) THEN
    IF value.t = "arr" /\ Len(value.a) = 0 THEN <<"[", "]">>
    ELSE IF Len(ObjectKeys(value)) = 0 THEN <<"{", "}">>
    ELSE JSONstringify(value)
  ELSE ToStringJS(value)

\* original === updated for two values that are not one and the same object
StrictEq(a, b) == ~IsContainer(a) /\ a = b

\* new Set([...Object.keys(original), ...Object.keys(updated)])
RECURSIVE dedupe(_, _)
dedupe(ks, acc) ==
  IF Len(ks) = 0 THEN acc
  ELSE dedupe(Tail(ks), IF Head(ks) \in Range(acc) THEN acc ELSE Append(acc, Head(ks)))

allKeys(original, updated) == dedupe(ObjectKeys(original) \o ObjectKeys(updated), <<>>)

DiffEntry(field, before, after) == [field |-> field, before |-> before, after |-> after]

\* (mutant) values are compared by identity only, not by their display forms
RECURSIVE getDifferencesByIdentity(_, _, _)
getDifferencesByIdentity(original, updated, parentField) ==
  LET before == formatValueForDiff(original)
      after == formatValueForDiff(updated)
  IN
  IF StrictEq(original, updated) THEN <<>>
  ELSE IF IsArr(original) /\ IsArr(updated) THEN
    LET len == IF Len(original.a) > Len(updated.a) THEN Len(original.a) ELSE Len(updated.a) IN
    Concat([i \in 1..len |->
      getDifferencesByIdentity(GetProp(original, NatToText(i - 1)),
                               GetProp(updated, NatToText(i - 1)),
                               parentField \o <<"[">> \o NatToText(i - 1) \o <<"]">>)])
  ELSE IF IsContainer(original) /\ IsContainer(updated) THEN
    LET ks == allKeys(original, updated) IN
    Concat([i \in 1..Len(ks) |->
      getDifferencesByIdentity(GetProp(original, ks[i]), GetProp(updated, ks[i]),
                     IF Len(parentField) > 0 THEN parentField \o <<".">> \o ks[i] ELSE ks[i])])
  ELSE <<DiffEntry(parentField, before, after)>>

\* (mutant) the path of an object key always gets a dot, the root included
RECURSIVE getDifferencesDotted(_, _, _)
getDifferencesDotted(original, updated, parentField) ==
  LET before == formatValueForDiff(original)
      after == formatValueForDiff(updated)
  IN
  IF StrictEq(original, updated) THEN <<>>
  ELSE IF before = after THEN <<>>
  ELSE IF IsArr(original) /\ IsArr(updated) THEN
    LET len == IF Len(original.a) > Len(updated.a) THEN Len(original.a) ELSE Len(updated.a) IN
    Concat([i \in 1..len |->
      getDifferencesDotted(GetProp(original, NatToText(i - 1)),
                           GetProp(updated, NatToText(i - 1)),
                           parentField \o <<"[">> \o NatToText(i - 1) \o <<"]">>)])
  ELSE IF IsContainer(original) /\ IsContainer(updated) THEN
    LET ks == allKeys(original, updated) IN
    Concat([i \in 1..Len(ks) |->
      getDifferencesDotted(GetProp(original, ks[i]), GetProp(updated, ks[i]),
                           parentField \o <<".">> \o ks[i])])
  ELSE <<DiffEntry(parentField, before, after)>>

RECURSIVE getDifferences(_, _, _)
getDifferences(original, updated, parentField) ==
  LET before == formatValueForDiff(original)
      after == formatValueForDiff(updated)
  IN
  IF StrictEq(original, updated) THEN <<>>
  ELSE IF before = after THEN <<>>
  ELSE IF IsArr(original) /\ IsArr(updated) THEN
    LET len == IF Len(original.a) > Len(updated.a) THEN Len(original.a) ELSE Len(updated.a) IN
    Concat([i \in 1..len |->
      getDifferences(GetProp(original, NatToText(i - 1)), GetProp(updated, NatToText(i - 1)),
                     parentField \o <<"[">> \o NatToText(i - 1) \o <<"]">>)])
  ELSE IF IsContainer(original) /\ IsContainer(updated) THEN
    LET ks == allKeys(original, updated) IN
    Concat([i \in 1..Len(ks) |->
      getDifferences(GetProp(original, ks[i]), GetProp(updated, ks[i]),
                     IF Len(parentField) > 0 THEN parentField \o <<".">> \o ks[i] ELSE ks[i])])
  ELSE <<DiffEntry(parentField, before, after)>>

\* (mutant) the banned terms are compared as written, not lower-cased
isBannedAfterCaseSensitive(rules, after) ==
  LET afterValue == toLowerCase(ToStringJS(OrElse(Str(after), Str(<<>>)))) IN
  \E i \in 1..Len(rules.bannedTerms) : includes(afterValue, rules.bannedTerms[i])

\* lines 234-240 and 264-270: the classification of one difference
isBannedAfter(rules, after) ==
  LET afterValue == toLowerCase(ToStringJS(OrElse(Str(after), Str(<<>>)))) IN
  \E i \in 1..Len(rules.bannedTerms) :
    includes(afterValue, toLowerCase(rules.bannedTerms[i]))

classify(d, rules) ==
  [field |-> d.field, before |-> d.before, after |-> d.after,
   brandkit_approved |-> ~isBannedAfter(rules, d.after)]

classifyAll(differences, rules) ==
  [i \in 1..Len(differences) |-> classify(differences[i], rules)]


(***************************************************************************)
(* Regular expressions of preview: escapeRegExp, new RegExp(.., "gi") and  *)
(* String.prototype.replace (src/config/index.js)                          *)
(***************************************************************************)
RegExpSpecials == {".", "*", "+", "?", "^", "$", "{", "}", "(", ")", "|", "[", "]", "\\"}

\* str.replace(/[.*+?^${}()|[\]\\]/g, "\\$&")
escapeRegExp(str) ==
  Concat([i \in 1..Len(str) |->
            IF str[i] \in RegExpSpecials THEN <<"\\", str[i]>> ELSE <<str[i]>>])

Lit(c) == [kind |-> "lit", c |-> c]

AnyChar == [kind |-> "any", c |-> ""]

WordBoundary == [kind |-> "wb", c |-> ""]

\* new RegExp(source): the atoms of a source made of characters, escaped
\* characters, dots and \b
RECURSIVE compile(_)
compile(source) ==
  IF Len(source) = 0 THEN <<>>
  ELSE IF source[1] = "\\" /\ Len(source) >= 2 THEN
    <<IF source[2] = "b" THEN WordBoundary ELSE Lit(source[2])>>
    \o compile(SubSeq(source, 3, Len(source)))
  ELSE <<IF source[1] = "." THEN AnyChar ELSE Lit(source[1])>> \o compile(Tail(source))

\* \w
IsWordChar(c) == c \in UpperSet \cup LowerSet \cup DigitSet \cup {"_"}

\* the character at position i is a word character (none outside the text)
WordAt(s, i) == i >= 1 /\ i <= Len(s) /\ IsWordChar(s[i])

\* The position after a match of the atoms at position i, 0 when there is none
RECURSIVE matchAt(_, _, _)
matchAt(atoms, s, i) ==
  IF Len(atoms) = 0 THEN i
  ELSE LET a == Head(atoms) IN
    IF a.kind = "wb"
    THEN IF WordAt(s, i - 1) # WordAt(s, i) THEN matchAt(Tail(atoms), s, i) ELSE 0
    ELSE IF i > Len(s) THEN 0
    ELSE IF a.kind = "any"
    THEN IF s[i] \notin {"\n", "\r"} THEN matchAt(Tail(atoms), s, i + 1) ELSE 0
    ELSE IF toLowerChar(s[i]) = toLowerChar(a.c) THEN matchAt(Tail(atoms), s, i + 1) ELSE 0

\* The text a replacement string stands for: $$, $&, $<bt> and $' are
\* patterns ("<bt>" is the backtick character), any other character stands
\* for itself (the expressions have no groups)
RECURSIVE expand(_, _, _, _)
expand(replacement, s, from, to) ==
  IF Len(replacement) = 0 THEN <<>>
  ELSE IF replacement[1] = "$" /\ Len(replacement) >= 2
          /\ replacement[2] \in {"$", "&", "<bt>", "'"}
  THEN (CASE replacement[2] = "$" -> <<"$">>
          [] replacement[2] = "&" -> SubSeq(s, from, to - 1)
          [] replacement[2] = "<bt>" -> SubSeq(s, 1, from - 1)
          [] OTHER -> SubSeq(s, to, Len(s)))
       \o expand(SubSeq(replacement, 3, Len(replacement)), s, from, to)
  ELSE <<replacement[1]>> \o expand(Tail(replacement), s, from, to)

\* s.replace(regex, replacement) for a global, case-insensitive regex: the
\* matches from left to right, each search starting where the last one ended
RECURSIVE replaceFrom(_, _, _, _)
replaceFrom(s, atoms, replacement, i) ==
  IF i > Len(s) + 1 THEN <<>>
  ELSE LET e == matchAt(atoms, s, i) IN
    IF e = 0
    THEN IF i > Len(s) THEN <<>> ELSE <<s[i]>> \o replaceFrom(s, atoms, replacement, i + 1)
    ELSE IF e = i
    THEN expand(replacement, s, i, e)
         \o (IF i > Len(s) THEN <<>> ELSE <<s[i]>>)
         \o replaceFrom(s, atoms, replacement, i + 1)
    ELSE expand(replacement, s, i, e) \o replaceFrom(s, atoms, replacement, e)

replaceAll(s, atoms, replacement) == replaceFrom(s, atoms, replacement, 1)

\* lines 186-189
userQueryReplacer(query, replaceWith, text) ==
  replaceAll(text, compile(escapeRegExp(query)), replaceWith)

\* lines 177-185
RECURSIVE brandkitReplacer(_, _)
brandkitReplacer(approvedTerms, text) ==
  IF Len(approvedTerms) = 0 THEN text
  ELSE LET rule == Head(approvedTerms)
           regex == compile(<<"\\", "b">> \o escapeRegExp(rule.term) \o <<"\\", "b">>)
       IN brandkitReplacer(Tail(approvedTerms), replaceAll(text, regex, rule.replaceWith))

\* A replacer function, as the data it closes over
BrandkitReplacer(approvedTerms) ==
  [kind |-> "brandkit", approvedTerms |-> approvedTerms]

UserQueryReplacer(query, replaceWith) ==
  [kind |-> "query", query |-> query, replaceWith |-> replaceWith]

\* func(text)
callReplacer(func, text) ==
  IF func.kind = "brandkit" THEN brandkitReplacer(func.approvedTerms, text)
  ELSE userQueryReplacer(func.query, func.replaceWith, text)

\* line 190: const replacers = [brandkitReplacer, userQueryReplacer]
previewReplacers(rules, query, replaceWith) ==
  <<BrandkitReplacer(rules.approvedTerms), UserQueryReplacer(query, replaceWith)>>

(***************************************************************************)
(* traverseAndModify (src/config/index.js) on a tree                       *)
(***************************************************************************)
\* (mutant) the replacers are applied from the last to the first
RECURSIVE reduceReplacersRight(_, _)
reduceReplacersRight(replacers, text) ==
  IF Len(replacers) = 0 THEN text
  ELSE reduceReplacersRight(SubSeq(replacers, 1, Len(replacers) - 1),
                            callReplacer(replacers[Len(replacers)], text))

\* line 56: replacers.reduce((text, func) => func(text), data)
RECURSIVE reduceReplacers(_, _)
reduceReplacers(replacers, text) ==
  IF Len(replacers) = 0 THEN text
  ELSE reduceReplacers(Tail(replacers), callReplacer(Head(replacers), text))

\* lines 51-77 on a value in which no object or array is reached twice: the
\* seen guard of lines 59-62 never fires there (graphs with shared or cyclic nodes are
\* walked by the Traverse actions below)
RECURSIVE traverseAndModify(_, _)
traverseAndModify(data, replacers) ==
  CASE data.t = "str" -> Str(reduceReplacers(replacers, data.s))
    [] data.t = "arr" ->
         Arr([i \in 1..Len(data.a) |-> traverseAndModify(data.a[i], replacers)])
    [] data.t = "obj" ->
         Obj([i \in 1..Len(data.o) |->
                Prop(data.o[i].k, traverseAndModify(data.o[i].v, replacers))])
    [] OTHER -> data


(***************************************************************************)
(* getDifferences and the classification on bounded inputs                 *)
(***************************************************************************)
MaxArrayLen == 2

\* The leaves of the documents compared
DiffLeaves ==
  {Str(<<>>), Str(<<" ">>), Str(<<"a">>), Str(<<"B", "a", "d">>), Str(<<"1">>),
   Num(1), Num(9), Null, Undef, Str(Empty)}

DiffElements == {Num(1), Num(9), Str(<<"a">>), Undef}

DiffArrays == UNION {{Arr(a) : a \in [1..n -> DiffElements]} : n \in 0..MaxArrayLen}

DiffDocs ==
  DiffLeaves
  \cup DiffArrays
  \cup {Obj(<<>>)}
  \cup {Obj(<<Prop(<<"x">>, v)>>) : v \in DiffLeaves \cup {Arr(<<>>), Obj(<<>>)}}
  \cup {Obj(<<Prop(<<"x">>, v), Prop(<<"y">>, w)>>) : v, w \in {Str(<<"a">>), Num(1), Null}}
  \cup {Obj(<<Prop(<<"y">>, Num(1)), Prop(<<"x">>, Str(<<"a">>))>>)}
  \cup {Obj(<<Prop(<<"a">>, Obj(<<Prop(<<"b">>, Arr(<<Num(1), v>>))>>))>>) :
          v \in {Num(2), Num(9), Str(<<"b", "a", "d">>)}}

DiffInit ==
  /\ dPc = "input"
  /\ dOriginal \in DiffDocs
  /\ dUpdated \in DiffDocs
  /\ dSameRef \in {b \in BOOLEAN : b => (dOriginal = dUpdated /\ IsContainer(dOriginal))}
  /\ dRules \in RulesetPool
  /\ dDiffs = <<>>
  /\ dChanges = <<>>

\* lines 232 and 262: const differences = getDifferences(originalEntry, updatedEntry)
DiffCompute ==
  /\ dPc = "input"
  /\ dDiffs' = IF dSameRef THEN <<>> ELSE getDifferences(dOriginal, dUpdated, <<>>)
  /\ dPc' = "diffed"
  /\ UNCHANGED <<dOriginal, dUpdated, dSameRef, dRules, dChanges>>

\* lines 233-240 and 263-270: const changes = differences.map(...)
DiffClassify ==
  /\ dPc = "diffed"
  /\ Len(dDiffs) > 0
  /\ dChanges' = classifyAll(dDiffs, dRules)
  /\ dPc' = "classified"
  /\ UNCHANGED <<dOriginal, dUpdated, dSameRef, dRules, dDiffs>>

DiffIdle ==
  /\ dPc = "idle"
  /\ dOriginal = Undef
  /\ dUpdated = Undef
  /\ dSameRef = FALSE
  /\ dRules = [approvedTerms |-> <<>>, bannedTerms |-> <<>>]
  /\ dDiffs = <<>>
  /\ dChanges = <<>>


(***************************************************************************)
(* traverseAndModify on bounded inputs                                     *)
(***************************************************************************)
MaxReplacers == 2

ReplaceTexts ==
  {<<"a", "b">>, <<"A", "b", " ", "a">>, <<"b">>, <<"a", ".", "b">>, <<"x", "a", "b">>}

\* The approved terms of a ruleset: ab is to read b
ApprovedAB == <<[term |-> <<"a", "b">>, replaceWith |-> <<"b">>]>>

ReplacerPool ==
  {UserQueryReplacer(<<"a">>, <<"b">>),
   UserQueryReplacer(<<"b">>, <<"c">>),
   UserQueryReplacer(<<".">>, <<"a">>),
   BrandkitReplacer(ApprovedAB)}

ReplacerLists == UNION {[1..n -> ReplacerPool] : n \in 0..MaxReplacers}

ReplaceRequests ==
  [rules : {[approvedTerms |-> <<>>, bannedTerms |-> <<>>],
            [approvedTerms |-> ApprovedAB, bannedTerms |-> <<>>]},
   query : {<<"a">>, <<"b">>},
   replaceWith : {<<"c">>, <<"a", "b">>}]

ReplaceDocs ==
  {Str(t) : t \in ReplaceTexts}
  \cup {Obj(<<Prop(<<"x">>, Str(t)), Prop(<<"n">>, Num(1)), Prop(<<"z">>, Null)>>) :
          t \in ReplaceTexts}
  \cup {Arr(<<Str(t), Obj(<<Prop(<<"y">>, Str(u))>>)>>) :
          t \in {<<"a", "b">>}, u \in ReplaceTexts}

NoRequest == [rules |-> [approvedTerms |-> <<>>, bannedTerms |-> <<>>],
              query |-> <<>>, replaceWith |-> <<>>]

\* Either preview builds the replacers from its request, or a caller hands a
\* list of replacers to traverseAndModify
ReplaceInit ==
  /\ rData \in ReplaceDocs
  /\ rOut = Undef
  /\ \/ /\ rPc = "build"
        /\ rRequest \in ReplaceRequests
        /\ rReplacers = <<>>
     \/ /\ rPc = "run"
        /\ rRequest = NoRequest
        /\ rReplacers \in ReplacerLists

\* lines 177-190
ReplaceBuild ==
  /\ rPc = "build"
  /\ rReplacers' = previewReplacers(rRequest.rules, rRequest.query, rRequest.replaceWith)
  /\ rPc' = "run"
  /\ UNCHANGED <<rRequest, rData, rOut>>

\* lines 200-203 and 257-260
ReplaceRun ==
  /\ rPc = "run"
  /\ rOut' = traverseAndModify(rData, rReplacers)
  /\ rPc' = "done"
  /\ UNCHANGED <<rRequest, rReplacers, rData>>

ReplaceIdle ==
  /\ rPc = "idle"
  /\ rRequest = NoRequest
  /\ rReplacers = <<>>
  /\ rData = Undef
  /\ rOut = Undef


(***************************************************************************)
(* Object graphs: objects and arrays have identity, a property or element  *)
(* holds a leaf value or a reference to a node                             *)
(***************************************************************************)
Ref(id) == [t |-> "ref", id |-> id]

IsRef(v) == v.t = "ref"

Node(kind, slots) == [kind |-> kind, slots |-> slots]

\* The key of the j-th element of an array
arrayKey(j) == NatToText(j - 1)

\* The key of the j-th own property of an input object
objectKey(j) == <<"k">> \o NatToText(j)

slotsOf(kind, values) ==
  [j \in 1..Len(values) |->
     Prop(IF kind = "arr" THEN arrayKey(j) ELSE objectKey(j), values[j])]

RECURSIVE SumSeq(_)
SumSeq(ns) == IF Len(ns) = 0 THEN 0 ELSE Head(ns) + SumSeq(Tail(ns))

\* The nodes of a graph
MaxNodes == 2

\* The elements and properties of all nodes of a graph together
MaxSlots == 3

GraphLeaves == {Str(<<"a">>), Fn}

GraphValues(n) == GraphLeaves \cup {Ref(i) : i \in 1..n}

\* How many elements or properties each of n nodes has
SlotCounts(n) == {counts \in [1..n -> 0..MaxSlots] : SumSeq(counts) <= MaxSlots}

\* The graph of n nodes in which node i is of kinds[i] and holds the next
\* counts[i] of the values
Graph(n, counts, kinds, values) ==
  [i \in 1..n |->
     Node(kinds[i],
          slotsOf(kinds[i],
                  SubSeq(values,
                         SumSeq(SubSeq(counts, 1, i - 1)) + 1,
                         SumSeq(SubSeq(counts, 1, i)))))]

\* A call on the first node of a graph, or on a value that is no object
GraphInput(nodes, root) ==
  \/ /\ root = Ref(1)
     /\ \E n \in 1..MaxNodes :
          \E counts \in SlotCounts(n) :
            \E kinds \in [1..n -> {"obj", "arr"}] :
              \E values \in [1..SumSeq(counts) -> GraphValues(n)] :
                nodes = Graph(n, counts, kinds, values)
  \/ /\ root \in GraphLeaves \cup {Null, Undef}
     /\ nodes = <<>>

(***************************************************************************)
(* sanitizeObject (src/config/index.js lines 21-46), one call or return    *)
(* per step                                                                *)
(***************************************************************************)
Frame(data, copy) == [data |-> data, copy |-> copy, i |-> 1]

\* A WeakMap that never records a copy
setVisitedNever(map, id, copy) == map

\* lines 31 and 37: visited.set(data, arr) and visited.set(data, obj)
setVisited(map, id, copy) == [map EXCEPT ![id] = copy]

\* lines 32 and 41: arr.push(value) and obj[key] = value
put(copies, copy, key, value) ==
  [copies EXCEPT ![copy].slots =
     Append(@, Prop(IF copies[copy].kind = "arr" THEN arrayKey(Len(@) + 1) ELSE key,
                    value))]

advance(stack) == [stack EXCEPT ![Len(stack)].i = @ + 1]

STop == sStack[Len(sStack)]

STopNode == gNodes[STop.data]

SAtSlot == sPc = "walk" /\ STop.i <= Len(STopNode.slots)

SCur == STopNode.slots[STop.i]

SanitizeInit ==
  /\ GraphInput(gNodes, gRoot)
  /\ sPc = "call"
  /\ visited = [i \in 1..Len(gNodes) |-> 0]
  /\ sStack = <<>>
  /\ sCopies = <<>>
  /\ sResult = Undef
  /\ sSteps = 0

\* The outermost call: lines 22-24 return what is no object; lines 29-31 and
\* 36-37 create the copy of the root and record it
SanitizeCall ==
  /\ sPc = "call"
  /\ sSteps' = sSteps + 1
  /\ IF IsRef(gRoot)
     THEN /\ sCopies' = Append(sCopies, Node(gNodes[gRoot.id].kind, <<>>))
          /\ visited' = setVisited(visited, gRoot.id, Len(sCopies) + 1)
          /\ sStack' = <<Frame(gRoot.id, Len(sCopies) + 1)>>
          /\ sPc' = "walk"
          /\ UNCHANGED sResult
     ELSE /\ sResult' = gRoot
          /\ sPc' = "done"
          /\ UNCHANGED <<visited, sStack, sCopies>>
  /\ UNCHANGED <<gNodes, gRoot>>

\* line 40: a property of an object whose value is a function is left out
SanitizeSkipFunction ==
  /\ SAtSlot
  /\ STopNode.kind = "obj"
  /\ SCur.v.t = "fn"
  /\ sStack' = advance(sStack)
  /\ sSteps' = sSteps + 1
  /\ UNCHANGED <<gNodes, gRoot, sPc, visited, sCopies, sResult>>

\* lines 22-24 inside lines 32 and 41: what is no object is stored as it is
SanitizeLeaf ==
  /\ SAtSlot
  /\ ~IsRef(SCur.v)
  /\ ~(STopNode.kind = "obj" /\ SCur.v.t = "fn")
  /\ sCopies' = put(sCopies, STop.copy, SCur.k, SCur.v)
  /\ sStack' = advance(sStack)
  /\ sSteps' = sSteps + 1
  /\ UNCHANGED <<gNodes, gRoot, sPc, visited, sResult>>

\* lines 25-27: the copy recorded for a node is returned
SanitizeRevisit ==
  /\ SAtSlot
  /\ IsRef(SCur.v)
  /\ visited[SCur.v.id] # 0
  /\ sCopies' = put(sCopies, STop.copy, SCur.k, Ref(visited[SCur.v.id]))
  /\ sStack' = advance(sStack)
  /\ sSteps' = sSteps + 1
  /\ UNCHANGED <<gNodes, gRoot, sPc, visited, sResult>>

\* lines 29-31 and 36-37: a node met for the first time gets its copy
SanitizeEnter ==
  /\ SAtSlot
  /\ IsRef(SCur.v)
  /\ visited[SCur.v.id] = 0
  /\ sCopies' = Append(sCopies, Node(gNodes[SCur.v.id].kind, <<>>))
  /\ visited' = setVisited(visited, SCur.v.id, Len(sCopies) + 1)
  /\ sStack' = Append(sStack, Frame(SCur.v.id, Len(sCopies) + 1))
  /\ sSteps' = sSteps + 1
  /\ UNCHANGED <<gNodes, gRoot, sPc, sResult>>

\* lines 33 and 45: the copy is returned, to the caller's push or assignment
SanitizeReturn ==
  /\ sPc = "walk"
  /\ STop.i > Len(STopNode.slots)
  /\ sSteps' = sSteps + 1
  /\ IF Len(sStack) = 1
     THEN /\ sResult' = Ref(STop.copy)
          /\ sPc' = "done"
          /\ sStack' = <<>>
          /\ UNCHANGED sCopies
     ELSE LET rest == SubSeq(sStack, 1, Len(sStack) - 1)
              caller == rest[Len(rest)]
              key == gNodes[caller.data].slots[caller.i].k
          IN /\ sCopies' = put(sCopies, caller.copy, key, Ref(STop.copy))
             /\ sStack' = advance(rest)
             /\ UNCHANGED <<sPc, sResult>>
  /\ UNCHANGED <<gNodes, gRoot, visited>>

SanitizeIdle ==
  /\ gNodes = <<>>
  /\ gRoot = Undef
  /\ sPc = "idle"
  /\ visited = <<>>
  /\ sStack = <<>>
  /\ sCopies = <<>>
  /\ sResult = Undef
  /\ sSteps = 0


(***************************************************************************)
(* traverseAndModify (src/config/index.js lines 51-77) on an object graph, *)
(* one call or return per step                                             *)
(***************************************************************************)
\* line 60
CircularReference ==
  <<"[", "C", "i", "r", "c", "u", "l", "a", "r", " ",
    "R", "e", "f", "e", "r", "e", "n", "c", "e", "]">>

\* A WeakSet that never holds anything
hasSeenNever(set, id) == FALSE

\* line 59: seen.has(data)
hasSeen(set, id) == \E i \in 1..Len(set) : set[i] = id

\* lines 52-57 and 76: the value returned for what is no object
leafValue(data, replacers) ==
  IF data.t = "str" THEN Str(reduceReplacers(replacers, data.s)) ELSE data

TTop == tStack[Len(tStack)]

TTopNode == tNodes[TTop.data]

TAtSlot == tPc = "walk" /\ TTop.i <= Len(TTopNode.slots)

TCur == TTopNode.slots[TTop.i]

TraverseInit ==
  /\ GraphInput(tNodes, tRoot)
  /\ tReplacers = <<UserQueryReplacer(<<"a">>, <<"b">>)>>
  /\ tPc = "call"
  /\ seen = <<>>
  /\ tStack = <<>>
  /\ tCopies = <<>>
  /\ tResult = Undef
  /\ tSteps = 0

\* The outermost call: lines 52-57 and 76 on what is no object; lines 58-63
\* and 65-69 on the root, which the empty set does not hold
TraverseCall ==
  /\ tPc = "call"
  /\ tSteps' = tSteps + 1
  /\ IF IsRef(tRoot)
     THEN /\ seen' = Append(seen, tRoot.id)
          /\ tCopies' = Append(tCopies, Node(tNodes[tRoot.id].kind, <<>>))
          /\ tStack' = <<Frame(tRoot.id, Len(tCopies) + 1)>>
          /\ tPc' = "walk"
          /\ UNCHANGED tResult
     ELSE /\ tResult' = leafValue(tRoot, tReplacers)
          /\ tPc' = "done"
          /\ UNCHANGED <<seen, tStack, tCopies>>
  /\ UNCHANGED <<tNodes, tRoot, tReplacers>>

\* lines 52-57 and 76 inside lines 66 and 72
TraverseLeaf ==
  /\ TAtSlot
  /\ ~IsRef(TCur.v)
  /\ tCopies' = put(tCopies, TTop.copy, TCur.k, leafValue(TCur.v, tReplacers))
  /\ tStack' = advance(tStack)
  /\ tSteps' = tSteps + 1
  /\ UNCHANGED <<tNodes, tRoot, tReplacers, tPc, seen, tResult>>

\* lines 59-61: the marker stands where a node is reached again
TraverseRevisit ==
  /\ TAtSlot
  /\ IsRef(TCur.v)
  /\ hasSeen(seen, TCur.v.id)
  /\ tCopies' = put(tCopies, TTop.copy, TCur.k, Str(CircularReference))
  /\ tStack' = advance(tStack)
  /\ tSteps' = tSteps + 1
  /\ UNCHANGED <<tNodes, tRoot, tReplacers, tPc, seen, tResult>>

\* lines 63-69: a node reached for the first time is added to the set and
\* its elements or properties are traversed into a new array or object
TraverseEnter ==
  /\ TAtSlot
  /\ IsRef(TCur.v)
  /\ ~hasSeen(seen, TCur.v.id)
  /\ seen' = Append(seen, TCur.v.id)
  /\ tCopies' = Append(tCopies, Node(tNodes[TCur.v.id].kind, <<>>))
  /\ tStack' = Append(tStack, Frame(TCur.v.id, Len(tCopies) + 1))
  /\ tSteps' = tSteps + 1
  /\ UNCHANGED <<tNodes, tRoot, tReplacers, tPc, tResult>>

\* lines 66 and 75: the new array or object is returned
TraverseReturn ==
  /\ tPc = "walk"
  /\ TTop.i > Len(TTopNode.slots)
  /\ tSteps' = tSteps + 1
  /\ IF Len(tStack) = 1
     THEN /\ tResult' = Ref(TTop.copy)
          /\ tPc' = "done"
          /\ tStack' = <<>>
          /\ UNCHANGED tCopies
     ELSE LET rest == SubSeq(tStack, 1, Len(tStack) - 1)
              caller == rest[Len(rest)]
              key == tNodes[caller.data].slots[caller.i].k
          IN /\ tCopies' = put(tCopies, caller.copy, key, Ref(TTop.copy))
             /\ tStack' = advance(rest)
             /\ UNCHANGED <<tPc, tResult>>
  /\ UNCHANGED <<tNodes, tRoot, tReplacers, seen>>

TraverseIdle ==
  /\ tNodes = <<>>
  /\ tRoot = Undef
  /\ tReplacers = <<>>
  /\ tPc = "idle"
  /\ seen = <<>>
  /\ tStack = <<>>
  /\ tCopies = <<>>
  /\ tResult = Undef
  /\ tSteps = 0


(***************************************************************************)
(* makeReplacementContextual (src/services/geminiService.js lines 184-317) *)
(***************************************************************************)
\* How a call completed: it returned a value or it threw
Return(v) == [kind |-> "return", v |-> v]

Throw == [kind |-> "throw"]

NotCalled == [kind |-> "none"]

Fence == <<"<bt>", "<bt>", "<bt>">>

StartsWithCI(s, word) ==
  Len(s) >= Len(word) /\ toLowerCase(SubSeq(s, 1, Len(word))) = word

\* line 189: .replace(/^<bt><bt><bt>(json|javascript)?\s*/i, "")
stripOpeningFence(s) ==
  IF OccursAt(s, Fence, 1)
  THEN LET rest == SubSeq(s, 4, Len(s))
           json == <<"j", "s", "o", "n">>
           javascript == <<"j", "a", "v", "a", "s", "c", "r", "i", "p", "t">>
       IN trimStart(IF StartsWithCI(rest, json)
                    THEN SubSeq(rest, Len(json) + 1, Len(rest))
                    ELSE IF StartsWithCI(rest, javascript)
                    THEN SubSeq(rest, Len(javascript) + 1, Len(rest))
                    ELSE rest)
  ELSE s

\* line 190: .replace(/\s*<bt><bt><bt>$/i, "")
stripClosingFence(s) ==
  IF Len(s) >= 3 /\ OccursAt(s, Fence, Len(s) - 2)
  THEN trimEnd(SubSeq(s, 1, Len(s) - 3))
  ELSE s

Min(a, b) == IF a < b THEN a ELSE b

Max(a, b) == IF a > b THEN a ELSE b

\* lines 184-213 on a text that is not empty (line 185 returns an empty one)
sanitizeGeminiResponse(raw) ==
  IF raw = <<>> THEN raw
  ELSE
    LET cleaned == trim(stripClosingFence(stripOpeningFence(raw)))
        firstCurly == indexOf(cleaned, "{")
        firstSquare == indexOf(cleaned, "[")
        start == IF firstCurly = -1 THEN firstSquare
                 ELSE IF firstSquare = -1 THEN firstCurly
                 ELSE Min(firstCurly, firstSquare)
        sliced == IF start > 0 THEN SubSeq(cleaned, start + 1, Len(cleaned)) ELSE cleaned
        lastCurly == lastIndexOf(sliced, "}")
        lastSquare == lastIndexOf(sliced, "]")
        end == Max(lastCurly, lastSquare)
        cut == IF end # -1 THEN SubSeq(sliced, 1, end + 1) ELSE sliced
    IN trim(cut)

\* callGemini without its try and catch
callGeminiUncaught(gemini) == gemini

\* lines 221-232: the text, or null when the call or response.text() threw
callGemini(gemini) ==
  IF gemini.kind = "throw" THEN Return(Null) ELSE gemini

\* What the service answers, when it answers
GeminiTexts ==
  {<<"{", "\"", "a", "\"", ":", "\"", "y", "\"", "}">>,
   <<"<bt>", "<bt>", "<bt>", "j", "s", "o", "n", "\n", "{", "\"", "a", "\"", ":", "\"", "y", "\"", "}", "\n", "<bt>", "<bt>", "<bt>">>,
   <<"<bt>", "<bt>", "<bt>", "J", "S", "O", "N", " ", "[", "1", "]", "<bt>", "<bt>", "<bt>">>,
   <<"S", "u", "r", "e", ":", " ", "{", "\"", "a", "\"", ":", "\"", "y", "\"", "}", " ", "o", "k">>,
   <<"{", "a", ":", "1", "}">>,
   <<"n", "o", " ", "j", "s", "o", "n">>,
   <<>>,
   <<" ">>,
   <<"[", "1", "]", " ", "}">>,
   <<"<bt>", "<bt>", "<bt>", "j", "s", "\n", "[", "1", "]", "\n", "<bt>", "<bt>", "<bt>">>,
   <<"4", "2">>,
   <<"{", "\"", "a", "\"", ":", "\"", "}">>,
   <<"<bt>", "<bt>", "<bt>", "\n", "<bt>", "<bt>", "<bt>">>}

\* JSON.stringify(traditionallyUpdatedEntry, null, 2) of preview
RefineInputs ==
  {<<"{", "\n", " ", " ", "\"", "a", "\"", ":", " ", "\"", "x", "\"", "\n", "}">>,
   <<"[", "]">>,
   <<"{", "\n", " ", " ", "\"", "a", "\"", ":", " ", "[", "\n", " ", " ", " ", " ", "1", "\n", " ", " ", "]", "\n", "}">>,
   <<"{", "}">>}

\* What jsonrepair returns, when it returns
RepairTexts ==
  {<<"{", "\"", "a", "\"", ":", "1", "}">>,
   <<"{", "a">>,
   <<>>}

RefineInit ==
  /\ fPc = "call"
  /\ fInput \in RefineInputs
  /\ fGemini = NotCalled
  /\ fResponse = Undef
  /\ fSanitized = <<>>
  /\ fRepair = NotCalled
  /\ fResult = NotCalled

\* line 288: await callGemini(systemPrompt, userPrompt)
RefineCall ==
  /\ fPc = "call"
  /\ \E gemini \in {Throw} \cup {Return(Str(text)) : text \in GeminiTexts} :
       /\ fGemini' = gemini
       /\ LET called == callGemini(gemini) IN
          IF called.kind = "throw"
          THEN /\ fResult' = Throw
               /\ fPc' = "done"
               /\ UNCHANGED fResponse
          ELSE /\ fResponse' = called.v
               /\ fPc' = "parse"
               /\ UNCHANGED fResult
  /\ UNCHANGED <<fInput, fSanitized, fRepair>>

\* lines 290-298 and 315-316: nothing to refine with, or the sanitized text
\* parses and is returned, or the repair is attempted
RefineParse ==
  /\ fPc = "parse"
  /\ IF ~Truthy(fResponse)
     THEN /\ fResult' = Return(fInput)
          /\ fPc' = "done"
          /\ UNCHANGED fSanitized
     ELSE LET sanitized == sanitizeGeminiResponse(fResponse.s) IN
          /\ fSanitized' = sanitized
          /\ IF JSONparse(sanitized).ok
             THEN fResult' = Return(sanitized) /\ fPc' = "done"
             ELSE fPc' = "repair" /\ UNCHANGED fResult
  /\ UNCHANGED <<fInput, fGemini, fResponse, fRepair>>

\* lines 301-316: the repaired text is returned when it parses, the text that
\* came in when jsonrepair or the parse of its result throws
RefineRepair ==
  /\ fPc = "repair"
  /\ \E repaired \in {Throw} \cup {Return(text) : text \in RepairTexts} :
       /\ fRepair' = repaired
       /\ fResult' = IF repaired.kind = "return" /\ JSONparse(repaired.v).ok
                     THEN Return(repaired.v)
                     ELSE Return(fInput)
  /\ fPc' = "done"
  /\ UNCHANGED <<fInput, fGemini, fResponse, fSanitized>>

RefineIdle ==
  /\ fPc = "idle"
  /\ fInput = <<>>
  /\ fGemini = NotCalled
  /\ fResponse = Undef
  /\ fSanitized = <<>>
  /\ fRepair = NotCalled
  /\ fResult = NotCalled


(***************************************************************************)
(* preview (src/config/index.js lines 151-295)                             *)
(***************************************************************************)
\* lines 21-46 on a value in which no object or array is reached twice
RECURSIVE sanitizeObject(_)
sanitizeObject(data) ==
  CASE data.t = "arr" -> Arr([i \in 1..Len(data.a) |-> sanitizeObject(data.a[i])])
    [] data.t = "obj" ->
         LET kept == SelectSeq(data.o, LAMBDA p : p.v.t # "fn") IN
         Obj([i \in 1..Len(kept) |-> Prop(kept[i].k, sanitizeObject(kept[i].v))])
    [] OTHER -> data

\* The entries of the content type in the record store
PreviewStore ==
  <<Obj(<<Prop(kUid, Str(<<"e", "1">>)), Prop(kTitle, Str(<<"T">>)),
          Prop(<<"text">>, Str(<<"a", " ", "A", ".">>))>>),
    Obj(<<Prop(kUid, Str(<<"e", "2">>)), Prop(kTitle, Str(<<>>)),
          Prop(kBody, Obj(<<Prop(<<"x">>, Str(<<"b", "a", " ", "c">>)), Prop(<<"n">>, Num(1))>>)),
          Prop(kTags, Arr(<<Str(<<"a">>), Str(<<"c">>)>>))>>),
    Obj(<<Prop(kUid, Str(<<"e", "3">>)), Prop(kTitle, Str(<<"c">>)),
          Prop(<<"text">>, Str(<<"c">>))>>)>>

PreviewRulesets ==
  {[approvedTerms |-> <<>>, bannedTerms |-> <<>>],
   [approvedTerms |-> <<>>, bannedTerms |-> << <<"B">> >>],
   [approvedTerms |-> <<[term |-> <<"c">>, replaceWith |-> <<"d">>]>>, bannedTerms |-> <<>>]}

PreviewRequests ==
  [contentTypeUid : {Str(<<"b", "l", "o", "g">>), Undef},
   query : {Str(<<"a">>), Str(<<".">>), Undef},
   replaceWith : {Str(<<"b">>), Str(<<"$", "$">>), Str(<<"$", "&", "b">>), Str(<<" ">>), Undef},
   smart : {Undef, Str(<<"t", "r", "u", "e">>), Str(<<"f", "a", "l", "s", "e">>)},
   entryUids : {Undef,
                Str(<<"e", "1">>),
                Arr(<<Str(<<"e", "1">>), Str(<<"e", "2">>)>>),
                Arr(<<Str(<<"e", "3">>), Str(<<"e", "9">>)>>)}]

\* lines 155-159: one uid is wrapped into an array
entryUidsOf(q) ==
  IF Truthy(q.entryUids) /\ ~IsArr(q.entryUids) THEN Arr(<<q.entryUids>>) ELSE q.entryUids

\* line 161
missingParameter(q) ==
  \/ ~Truthy(q.contentTypeUid)
  \/ ~Truthy(q.query)
  \/ ~Truthy(q.replaceWith)
  \/ ~Truthy(entryUidsOf(q))

\* contentstackService.getEntriesByIds (lines 39-64) when the store answers:
\* the entries whose uid is among entryUids
fetchEntriesByIds(entries, entryUids) ==
  IF Len(entryUids.a) = 0 THEN <<>>
  ELSE SelectSeq(entries,
                 LAMBDA e : \E i \in 1..Len(entryUids.a) : entryUids.a[i] = GetProp(e, kUid))

\* lines 281-290
previewBody(q, previewResults) ==
  [query |-> q.query.s,
   replaceWith |-> q.replaceWith.s,
   mode |-> IF q.smart = Str(<<"t", "r", "u", "e">>) THEN "smart" ELSE "traditional",
   totalChanges |-> SumSeq([i \in 1..Len(previewResults) |-> Len(previewResults[i].changes)]),
   preview |-> previewResults]

\* lines 262-277 and 232-247: the entry is listed when it has differences
pushResult(previewResults, rules, originalEntry, updatedEntry) ==
  LET differences == getDifferences(originalEntry, updatedEntry, <<>>) IN
  IF Len(differences) > 0
  THEN Append(previewResults,
              [entryUid |-> GetProp(originalEntry, kUid),
               title |-> OrElse(GetProp(originalEntry, kTitle), Str(NoTitle)),
               changes |-> classifyAll(differences, rules)])
  ELSE previewResults

\* Documents the refinement service may answer with
SmartDocs ==
  {Obj(<<Prop(kUid, Str(<<"e", "1">>)), Prop(kTitle, Str(<<"T">>)),
         Prop(<<"text">>, Str(<<"b", "!">>))>>),
   Arr(<<>>)}

PreviewInit ==
  /\ vPc = "start"
  /\ vReq \in PreviewRequests
  /\ vRules = [approvedTerms |-> <<>>, bannedTerms |-> <<>>]
  /\ vEntries = <<>>
  /\ vIndex = 0
  /\ vResults = <<>>
  /\ vCalls = <<>>
  /\ vResponse = [status |-> 0]

\* lines 153-165
PreviewValidate ==
  /\ vPc = "start"
  /\ IF missingParameter(vReq)
     THEN /\ vResponse' = [status |-> 400]
          /\ vPc' = "done"
     ELSE /\ vPc' = "rules"
          /\ UNCHANGED vResponse
  /\ UNCHANGED <<vReq, vRules, vEntries, vIndex, vResults, vCalls>>

\* line 168: await brandkitService.getRules()
PreviewRules ==
  /\ vPc = "rules"
  /\ vRules' \in PreviewRulesets
  /\ vCalls' = Append(vCalls, "getRules")
  /\ vPc' = "fetch"
  /\ UNCHANGED <<vReq, vEntries, vIndex, vResults, vResponse>>

\* lines 169-174 and 291-294: the fetch throws, or the entries are sanitized
PreviewFetch ==
  /\ vPc = "fetch"
  /\ vCalls' = Append(vCalls, "getEntriesByIds")
  /\ \/ /\ vResponse' = [status |-> 500]
        /\ vPc' = "done"
        /\ UNCHANGED <<vEntries, vIndex>>
     \/ /\ LET entries == fetchEntriesByIds(PreviewStore, entryUidsOf(vReq)) IN
           vEntries' = [i \in 1..Len(entries) |-> sanitizeObject(entries[i])]
        /\ vIndex' = 1
        /\ vPc' = IF vReq.smart = Str(<<"t", "r", "u", "e">>) THEN "smart" ELSE "traditional"
        /\ UNCHANGED vResponse
  /\ UNCHANGED <<vReq, vRules, vResults>>

\* lines 256-278: one entry of the traditional replacement
PreviewTraditionalEntry ==
  /\ vPc = "traditional"
  /\ vIndex <= Len(vEntries)
  /\ LET originalEntry == vEntries[vIndex]
         replacers == previewReplacers(vRules, vReq.query.s, vReq.replaceWith.s)
         updatedEntry == traverseAndModify(originalEntry, replacers)
     IN vResults' = pushResult(vResults, vRules, originalEntry, updatedEntry)
  /\ vIndex' = vIndex + 1
  /\ UNCHANGED <<vPc, vReq, vRules, vEntries, vCalls, vResponse>>

\* lines 198-248: one entry of the smart replacement; the refinement answers
\* with the text it was given or with another text that parses
PreviewSmartEntry ==
  /\ vPc = "smart"
  /\ vIndex <= Len(vEntries)
  /\ vCalls' = Append(vCalls, "makeReplacementContextual")
  /\ LET originalEntry == vEntries[vIndex]
         replacers == previewReplacers(vRules, vReq.query.s, vReq.replaceWith.s)
         traditionallyUpdatedEntry == traverseAndModify(originalEntry, replacers)
         textForGemini == JSONstringify(traditionallyUpdatedEntry)
     IN \E contextualText \in {textForGemini} \cup {JSONstringify(d) : d \in SmartDocs} :
          LET parsed == JSONparse(contextualText)
              updatedEntry == IF parsed.ok THEN parsed.v ELSE traditionallyUpdatedEntry
          IN vResults' = pushResult(vResults, vRules, originalEntry, updatedEntry)
  /\ vIndex' = vIndex + 1
  /\ UNCHANGED <<vPc, vReq, vRules, vEntries, vResponse>>

\* lines 281-290
PreviewRespond ==
  /\ vPc \in {"traditional", "smart"}
  /\ vIndex > Len(vEntries)
  /\ vResponse' = [status |-> 200, body |-> previewBody(vReq, vResults)]
  /\ vPc' = "done"
  /\ UNCHANGED <<vReq, vRules, vEntries, vIndex, vResults, vCalls>>

PreviewIdle ==
  /\ vPc = "idle"
  /\ vReq = Undef
  /\ vRules = [approvedTerms |-> <<>>, bannedTerms |-> <<>>]
  /\ vEntries = <<>>
  /\ vIndex = 0
  /\ vResults = <<>>
  /\ vCalls = <<>>
  /\ vResponse = [status |-> 0]


(***************************************************************************)
(* One fetched entry, an object graph, through preview: sanitizeObject     *)
(* (line 174), structuredClone and traverseAndModify (lines 257-260),      *)
(* getDifferences (line 262), inside the try of lines 167-294              *)
(***************************************************************************)
\* The nodes reached from a value in at most k steps
RECURSIVE reachable(_, _, _)
reachable(nodes, v, k) ==
  IF ~IsRef(v) \/ k = 0 THEN {}
  ELSE {v.id} \cup UNION {reachable(nodes, nodes[v.id].slots[j].v, k - 1) :
                            j \in 1..Len(nodes[v.id].slots)}

\* A node reached from the value is reached again from one of its own
\* elements or properties
reachesCycle(nodes, v) ==
  \E id \in reachable(nodes, v, Len(nodes)) :
    \E j \in 1..Len(nodes[id].slots) :
      id \in reachable(nodes, nodes[id].slots[j].v, Len(nodes))

\* structuredClone throws a DataCloneError on a value that holds a function
holdsFunction(nodes, v) ==
  \/ v.t = "fn"
  \/ \E id \in reachable(nodes, v, Len(nodes)) :
       \E j \in 1..Len(nodes[id].slots) : nodes[id].slots[j].v.t = "fn"

\* The value of a graph in which no node reaches itself, as a tree
RECURSIVE treeOf(_, _)
treeOf(nodes, v) ==
  IF ~IsRef(v) THEN v
  ELSE LET node == nodes[v.id] IN
       IF node.kind = "arr"
       THEN Arr([j \in 1..Len(node.slots) |-> treeOf(nodes, node.slots[j].v)])
       ELSE Obj([j \in 1..Len(node.slots) |->
                   Prop(node.slots[j].k, treeOf(nodes, node.slots[j].v))])

EntryInit ==
  /\ ePc = "clone"
  /\ eResponse = [status |-> 0]

\* lines 257-260 and 291-294: structuredClone(originalEntry) throws, which
\* the catch of preview answers with status 500, or hands its clone of the
\* sanitized entry to traverseAndModify
EntryClone ==
  /\ ePc = "clone"
  /\ sPc = "done"
  /\ IF holdsFunction(sCopies, sResult)
     THEN /\ eResponse' = [status |-> 500]
          /\ ePc' = "done"
          /\ UNCHANGED traverseVars
     ELSE /\ tNodes' = sCopies
          /\ tRoot' = sResult
          /\ tReplacers' = <<UserQueryReplacer(<<"a">>, <<"b">>)>>
          /\ tPc' = "call"
          /\ ePc' = "traverse"
          /\ UNCHANGED <<seen, tStack, tCopies, tResult, tSteps, eResponse>>
  /\ UNCHANGED sanitizeVars

\* lines 262-278 and 291-294: getDifferences calls formatValueForDiff on the
\* original entry first (line 101), whose JSON.stringify (line 89) throws a
\* TypeError on a circular structure
EntryDiff ==
  /\ ePc = "traverse"
  /\ tPc = "done"
  /\ eResponse' =
       IF reachesCycle(sCopies, sResult)
       THEN [status |-> 500]
       ELSE [status |-> 200,
             changes |-> getDifferences(treeOf(sCopies, sResult),
                                        treeOf(tCopies, tResult), <<>>)]
  /\ ePc' = "done"
  /\ UNCHANGED <<sanitizeVars, traverseVars>>

EntryIdle ==
  /\ ePc = "idle"
  /\ eResponse = [status |-> 0]


(***************************************************************************)
(* scan (src/controllers/scanController.js)                                *)
(***************************************************************************)
\* lines 2-28: the matches of one value, in the order in which they are
\* pushed
RECURSIVE scanRecursive(_, _, _, _)
scanRecursive(obj, query, parentField, entryUid) ==
  CASE obj.t \in {"null", "undef"} -> <<>>
    [] obj.t = "str" ->
         IF includes(toLowerCase(obj.s), toLowerCase(query))
         THEN <<[entryUid |-> entryUid, field |-> parentField, before |-> obj.s]>>
         ELSE <<>>
    [] obj.t = "arr" ->
         Concat([i \in 1..Len(obj.a) |->
                   scanRecursive(obj.a[i], query,
                                 parentField \o <<"[">> \o NatToText(i - 1) \o <<"]">>,
                                 entryUid)])
    [] obj.t = "obj" ->
         Concat([i \in 1..Len(obj.o) |->
                   scanRecursive(obj.o[i].v, query,
                                 IF Len(parentField) > 0
                                 THEN parentField \o <<".">> \o obj.o[i].k
                                 ELSE obj.o[i].k,
                                 entryUid)])
    [] OTHER -> <<>>

\* contentstackService.getEntries (lines 24-37) when the store answers: its
\* one parameter is the content type, the find has no condition
getEntries(entries, contentTypeUid) == entries

\* line 43
selectedEntryUidsOf(q) == IF IsArr(q.entryUids) THEN q.entryUids ELSE Arr(<<q.entryUids>>)

\* A scan that requires no entryUids
scanMissingParameterNoUids(q) == ~Truthy(q.contentTypeUid) \/ ~Truthy(q.query)

\* line 37
scanMissingParameter(q) ==
  ~Truthy(q.contentTypeUid) \/ ~Truthy(q.query) \/ ~Truthy(q.entryUids)

\* lines 57-64
enrich(match, entries) ==
  LET entry == entries[CHOOSE i \in 1..Len(entries) :
                         /\ GetProp(entries[i], kUid) = match.entryUid
                         /\ \A j \in 1..(i - 1) : GetProp(entries[j], kUid) # match.entryUid]
  IN [entryUid |-> match.entryUid, field |-> match.field, before |-> match.before,
      title |-> OrElse(GetProp(entry, kTitle), Str(NoTitle)),
      updated_at |-> GetProp(entry, <<"updated_at">>)]

ScanRequests ==
  [contentTypeUid : {Str(<<"b", "l", "o", "g">>), Undef},
   query : {Str(<<"a">>), Str(<<"c">>), Str(<<"T">>), Undef},
   entryUids : {Undef,
                Str(<<"e", "1">>),
                Arr(<<Str(<<"e", "1">>), Str(<<"e", "2">>)>>),
                Arr(<<Str(<<"e", "3">>), Str(<<"e", "9">>)>>),
                Arr(<<>>)}]

ScanInit ==
  /\ nPc = "start"
  /\ nReq \in ScanRequests
  /\ nEntries = <<>>
  /\ nIndex = 0
  /\ nMatches = <<>>
  /\ nCalls = <<>>
  /\ nResponse = [status |-> 0]

\* lines 35-43
ScanValidate ==
  /\ nPc = "start"
  /\ IF scanMissingParameter(nReq)
     THEN /\ nResponse' = [status |-> 400]
          /\ nPc' = "done"
     ELSE /\ nPc' = "fetch"
          /\ UNCHANGED nResponse
  /\ UNCHANGED <<nReq, nEntries, nIndex, nMatches, nCalls>>

\* lines 45-49 and 71-74: getEntries(contentTypeUid, selectedEntryUids)
\* throws, or answers
ScanFetch ==
  /\ nPc = "fetch"
  /\ nCalls' = Append(nCalls, "getEntries")
  /\ \/ /\ nResponse' = [status |-> 500]
        /\ nPc' = "done"
        /\ UNCHANGED <<nEntries, nIndex>>
     \/ /\ nEntries' = getEntries(PreviewStore, nReq.contentTypeUid)
        /\ nIndex' = 1
        /\ nPc' = "scan"
        /\ UNCHANGED nResponse
  /\ UNCHANGED <<nReq, nMatches>>

\* lines 53-55: one entry of the forEach
ScanEntry ==
  /\ nPc = "scan"
  /\ nIndex <= Len(nEntries)
  /\ nMatches' = nMatches \o scanRecursive(nEntries[nIndex], nReq.query.s, <<>>,
                                           GetProp(nEntries[nIndex], kUid))
  /\ nIndex' = nIndex + 1
  /\ UNCHANGED <<nPc, nReq, nEntries, nCalls, nResponse>>

\* lines 57-70
ScanRespond ==
  /\ nPc = "scan"
  /\ nIndex > Len(nEntries)
  /\ nResponse' = [status |-> 200,
                   body |-> [query |-> nReq.query.s,
                             totalMatches |-> Len(nMatches),
                             matches |-> [i \in 1..Len(nMatches) |->
                                            enrich(nMatches[i], nEntries)]]]
  /\ nPc' = "done"
  /\ UNCHANGED <<nReq, nEntries, nIndex, nMatches, nCalls>>

ScanIdle ==
  /\ nPc = "idle"
  /\ nReq = Undef
  /\ nEntries = <<>>
  /\ nIndex = 0
  /\ nMatches = <<>>
  /\ nCalls = <<>>
  /\ nResponse = [status |-> 0]


(***************************************************************************)
(* One path in bracket-index and in dot-index notation                     *)
(***************************************************************************)
KeySeg(k) == [index |-> FALSE, k |-> k]

IndexSeg(n) == [index |-> TRUE, k |-> NatToText(n)]

\* a[0].b: the path as getDifferences builds it (src/config/index.js lines
\* 113 and 128): '[i]' after the parent for an index, '.key' for a key, the
\* bare key at the root
RECURSIVE bracketForm(_, _)
bracketForm(segs, parentField) ==
  IF Len(segs) = 0 THEN parentField
  ELSE bracketForm(Tail(segs),
                   IF segs[1].index THEN parentField \o <<"[">> \o segs[1].k \o <<"]">>
                   ELSE IF Len(parentField) > 0 THEN parentField \o <<".">> \o segs[1].k
                   ELSE segs[1].k)

\* a.0.b: the segments joined by dots
RECURSIVE dotForm(_)
dotForm(segs) ==
  IF Len(segs) = 1 THEN segs[1].k
  ELSE segs[1].k \o <<".">> \o dotForm(Tail(segs))

MaxPathLen == 3

PathSegs == {KeySeg(<<"a">>), KeySeg(<<"b">>), IndexSeg(0), IndexSeg(1)}

PathDocs ==
  {Obj(<<Prop(<<"a">>, Arr(<<Obj(<<Prop(<<"b">>, Str(<<"x">>))>>), Str(<<"y">>)>>)),
         Prop(<<"b">>, Null)>>),
   Obj(<<Prop(<<"a">>, Obj(<<Prop(<<"0">>, Obj(<<Prop(<<"b">>, Num(1))>>))>>)),
         Prop(<<"0">>, Arr(<<Str(<<"z">>)>>))>>),
   Obj(<<>>)}

PathValues == {Str(<<"n">>), Str(<<"[", "1", "]">>)}

PathInit ==
  /\ hDoc \in PathDocs
  /\ \E n \in 1..MaxPathLen : hSegs \in [1..n -> PathSegs]
  /\ hValue \in PathValues
  /\ hBracket = <<>>
  /\ hDot = <<>>

\* setNestedValue(entryData, 'a[0].b', value)
PathWriteBracket ==
  /\ Len(hSegs) > 0
  /\ hBracket = <<>>
  /\ hBracket' = <<setNestedValue(hDoc, bracketForm(hSegs, <<>>), hValue)>>
  /\ UNCHANGED <<hDoc, hSegs, hValue, hDot>>

\* setNestedValue(entryData, 'a.0.b', value)
PathWriteDot ==
  /\ Len(hSegs) > 0
  /\ hDot = <<>>
  /\ hDot' = <<setNestedValue(hDoc, dotForm(hSegs), hValue)>>
  /\ UNCHANGED <<hDoc, hSegs, hValue, hBracket>>

PathIdle ==
  /\ hDoc = Undef
  /\ hSegs = <<>>
  /\ hValue = Undef
  /\ hBracket = <<>>
  /\ hDot = <<>>


(***************************************************************************)
(* getRules and its fallback (src/services/contentstackService.js 111-164) *)
(***************************************************************************)
kApprovedTerms == <<"a", "p", "p", "r", "o", "v", "e", "d", "T", "e", "r", "m", "s">>

kBannedTerms == <<"b", "a", "n", "n", "e", "d", "T", "e", "r", "m", "s">>

Ruleset(approved, banned) == [approvedTerms |-> approved, bannedTerms |-> banned]

\* { approvedTerms: x.approvedTerms || [], bannedTerms: x.bannedTerms || [] }
\* without the defaults
pickTermsRaw(x) ==
  IF x.t \in {"null", "undef"} THEN <<>>
  ELSE <<Ruleset(GetProp(x, kApprovedTerms), GetProp(x, kBannedTerms))>>

\* { approvedTerms: x.approvedTerms || [], bannedTerms: x.bannedTerms || [] }
\* (lines 116-119 and 146-149): <<>> where reading a property of null or
\* undefined throws a TypeError
pickTerms(x) ==
  IF x.t \in {"null", "undef"} THEN <<>>
  ELSE <<Ruleset(OrElse(GetProp(x, kApprovedTerms), Arr(<<>>)),
                 OrElse(GetProp(x, kBannedTerms), Arr(<<>>)))>>

\* lines 111-128: every failure inside the try ends in the empty ruleset
getRulesFromFile(file) ==
  IF ~file.readable THEN Ruleset(Arr(<<>>), Arr(<<>>))
  ELSE LET rules == JSONparse(file.data) IN
    IF ~rules.ok \/ pickTerms(rules.v) = <<>> THEN Ruleset(Arr(<<>>), Arr(<<>>))
    ELSE pickTerms(rules.v)[1]

\* The lists a ruleset source may hold under a key
TermLists ==
  {Arr(<<>>),
   Arr(<<Str(<<"z">>)>>),
   Arr(<<Obj(<<Prop(<<"t", "e", "r", "m">>, Str(<<"a">>)),
               Prop(<<"r", "e", "p", "l", "a", "c", "e", "W", "i", "t", "h">>, Str(<<"b">>))>>)>>)}

\* An object with both, one or none of the two keys, a key holding a list or null
RulesObjects ==
  {Obj(a \o b) :
     a \in {<<>>} \cup {<<Prop(kApprovedTerms, v)>> : v \in TermLists \cup {Null}},
     b \in {<<>>} \cup {<<Prop(kBannedTerms, v)>> : v \in TermLists \cup {Null}}}

\* response.data, or no response: the call threw (network error, timeout,
\* status outside 2xx)
RemoteOutcomes ==
  {[ok |-> FALSE, data |-> Undef]}
    \cup {[ok |-> TRUE, data |-> d] : d \in RulesObjects \cup {Null, Str(<<"<">>)}}

\* brandkit.json: missing, or its text: JSON of a ruleset, of null, of a
\* number, or no JSON at all
RuleFiles ==
  {[readable |-> FALSE, data |-> <<>>], [readable |-> TRUE, data |-> <<"{">>],
   [readable |-> TRUE, data |-> <<>>]}
    \cup {[readable |-> TRUE, data |-> JSONstringify(d)] : d \in RulesObjects \cup {Null, Num(5)}}

RulesInit ==
  /\ kPc = "start"
  /\ kEnv \in [url : BOOLEAN, key : BOOLEAN, id : BOOLEAN]
  /\ kRemote \in RemoteOutcomes
  /\ kFile \in RuleFiles
  /\ kResult = <<>>

\* line 137
RulesStart ==
  /\ kPc = "start"
  /\ kPc' = IF kEnv.url /\ kEnv.key /\ kEnv.id THEN "remote" ELSE "file"
  /\ UNCHANGED <<kEnv, kRemote, kFile, kResult>>

\* lines 138-149: the call and the return inside the try; lines 150-155: the
\* catch hands over to the file
RulesRemote ==
  /\ kPc = "remote"
  /\ IF kRemote.ok /\ pickTerms(kRemote.data) # <<>>
     THEN /\ kResult' = pickTerms(kRemote.data)
          /\ kPc' = "done"
     ELSE /\ kPc' = "file"
          /\ UNCHANGED kResult
  /\ UNCHANGED <<kEnv, kRemote, kFile>>

\* lines 156 and 162: return await _getRulesFromFile()
RulesFile ==
  /\ kPc = "file"
  /\ kResult' = <<getRulesFromFile(kFile)>>
  /\ kPc' = "done"
  /\ UNCHANGED <<kEnv, kRemote, kFile>>

RulesIdle ==
  /\ kPc = "idle"
  /\ kEnv = [url |-> FALSE, key |-> FALSE, id |-> FALSE]
  /\ kRemote = [ok |-> FALSE, data |-> Undef]
  /\ kFile = [readable |-> FALSE, data |-> <<>>]
  /\ kResult = <<>>


(***************************************************************************)
(* A preview followed by the apply of all its changes                      *)
(***************************************************************************)
RoundTexts == {<<"a">>, <<"a", " ", "c">>, <<"z">>}

\* The entries previewed: strings at the root, in an object and in an array,
\* beside a number
RoundDocs ==
  {Obj(<<Prop(kUid, Str(<<"e", "1">>)),
         Prop(kTitle, Str(t)),
         Prop(kBody, Obj(<<Prop(<<"x">>, Str(u)), Prop(<<"n">>, Num(1))>>)),
         Prop(kTags, Arr(<<Str(<<"z">>), Str(v)>>))>>) :
     t \in RoundTexts, u \in RoundTexts, v \in {<<"a">>, <<"z">>}}

RoundQueries ==
  [query : {<<"a">>},
   replaceWith : {<<"b">>, <<"1">>, <<" ">>, <<"t", "r", "u", "e">>, <<"[", "1", "]">>}]

RoundInit ==
  /\ oPc = "replace"
  /\ oQuery \in RoundQueries
  /\ oOriginal \in RoundDocs
  /\ oUpdated = Undef
  /\ oChanges = <<>>
  /\ oIndex = 0
  /\ oData = Undef

\* src/config/index.js lines 177-190 and 257-260: the replacers of a request
\* without approved terms, run over the clone of the entry
RoundReplace ==
  /\ oPc = "replace"
  /\ oUpdated' = traverseAndModify(oOriginal,
                   previewReplacers([approvedTerms |-> <<>>, bannedTerms |-> <<>>],
                                    oQuery.query, oQuery.replaceWith))
  /\ oPc' = "diff"
  /\ UNCHANGED <<oQuery, oOriginal, oChanges, oIndex, oData>>

\* src/config/index.js line 262: the differences; each is sent to apply as
\* the change {field, newValue: after}; src/unnamed/part_002 lines 72-76:
\* apply fetches the entry afresh
RoundDiff ==
  /\ oPc = "diff"
  /\ oChanges' = getDifferences(oOriginal, oUpdated, <<>>)
  /\ oData' = oOriginal
  /\ oIndex' = 1
  /\ oPc' = "apply"
  /\ UNCHANGED <<oQuery, oOriginal, oUpdated>>

\* src/unnamed/part_002 line 101: setNestedValue(entryData, change.field,
\* change.newValue) for one change
RoundApply ==
  /\ oPc = "apply"
  /\ oIndex <= Len(oChanges)
  /\ oData' = setNestedValue(oData, oChanges[oIndex].field, Str(oChanges[oIndex].after)).doc
  /\ oIndex' = oIndex + 1
  /\ UNCHANGED <<oPc, oQuery, oOriginal, oUpdated, oChanges>>

\* src/unnamed/part_002 lines 105-109: the loop has ended, the entry is handed
\* to updateEntry
RoundPersist ==
  /\ oPc = "apply"
  /\ oIndex > Len(oChanges)
  /\ oPc' = "done"
  /\ UNCHANGED <<oQuery, oOriginal, oUpdated, oChanges, oIndex, oData>>

RoundIdle ==
  /\ oPc = "idle"
  /\ oQuery = [query |-> <<>>, replaceWith |-> <<>>]
  /\ oOriginal = Undef
  /\ oUpdated = Undef
  /\ oChanges = <<>>
  /\ oIndex = 0
  /\ oData = Undef


(***************************************************************************)
(* Specifications                                                          *)
(***************************************************************************)
\* One apply request
notApplyVars == <<diffVars, replaceVars, sanitizeVars, traverseVars, refineVars, previewVars, entryVars, scanVars, pathVars, rulesVars, roundVars>>

Init == ApplyInit /\ DiffIdle /\ ReplaceIdle /\ SanitizeIdle /\ TraverseIdle /\ RefineIdle /\ PreviewIdle /\ EntryIdle /\ ScanIdle
  /\ PathIdle
  /\ RulesIdle
  /\ RoundIdle

Next ==
  \/ ApplyReject /\ UNCHANGED notApplyVars
  \/ ApplyStart /\ UNCHANGED notApplyVars
  \/ ApplyFetch /\ UNCHANGED notApplyVars
  \/ ApplyEdit /\ UNCHANGED notApplyVars
  \/ ApplyPersist /\ UNCHANGED notApplyVars
  \/ ApplyRespond /\ UNCHANGED notApplyVars

Spec == Init /\ [][Next]_vars

\* getDifferences and the classification on one pair of values
notDiffVars == <<applyVars, replaceVars, sanitizeVars, traverseVars, refineVars, previewVars, entryVars, scanVars, pathVars, rulesVars, roundVars>>

InitDiff == DiffInit /\ ApplyIdle /\ ReplaceIdle /\ SanitizeIdle /\ TraverseIdle /\ RefineIdle /\ PreviewIdle /\ EntryIdle /\ ScanIdle
  /\ PathIdle
  /\ RulesIdle
  /\ RoundIdle

NextDiff ==
  \/ DiffCompute /\ UNCHANGED notDiffVars
  \/ DiffClassify /\ UNCHANGED notDiffVars

SpecDiff == InitDiff /\ [][NextDiff]_vars

\* traverseAndModify on one value and one list of replacers
notReplaceVars == <<applyVars, diffVars, sanitizeVars, traverseVars, refineVars, previewVars, entryVars, scanVars, pathVars, rulesVars, roundVars>>

InitReplace == ReplaceInit /\ ApplyIdle /\ DiffIdle /\ SanitizeIdle /\ TraverseIdle /\ RefineIdle /\ PreviewIdle /\ EntryIdle /\ ScanIdle
  /\ PathIdle
  /\ RulesIdle
  /\ RoundIdle

NextReplace ==
  \/ ReplaceBuild /\ UNCHANGED notReplaceVars
  \/ ReplaceRun /\ UNCHANGED notReplaceVars

SpecReplace == InitReplace /\ [][NextReplace]_vars

\* sanitizeObject on one object graph
notSanitizeVars == <<applyVars, diffVars, replaceVars, traverseVars, refineVars, previewVars, entryVars, scanVars, pathVars, rulesVars, roundVars>>

InitSanitize == SanitizeInit /\ ApplyIdle /\ DiffIdle /\ ReplaceIdle /\ TraverseIdle /\ RefineIdle /\ PreviewIdle /\ EntryIdle /\ ScanIdle
  /\ PathIdle
  /\ RulesIdle
  /\ RoundIdle

NextSanitize ==
  \/ SanitizeCall /\ UNCHANGED notSanitizeVars
  \/ SanitizeSkipFunction /\ UNCHANGED notSanitizeVars
  \/ SanitizeLeaf /\ UNCHANGED notSanitizeVars
  \/ SanitizeRevisit /\ UNCHANGED notSanitizeVars
  \/ SanitizeEnter /\ UNCHANGED notSanitizeVars
  \/ SanitizeReturn /\ UNCHANGED notSanitizeVars

SpecSanitize == InitSanitize /\ [][NextSanitize]_vars

\* traverseAndModify on one object graph
notTraverseVars == <<applyVars, diffVars, replaceVars, sanitizeVars, refineVars, previewVars, entryVars, scanVars, pathVars, rulesVars, roundVars>>

InitTraverse == TraverseInit /\ ApplyIdle /\ DiffIdle /\ ReplaceIdle /\ SanitizeIdle /\ RefineIdle /\ PreviewIdle /\ EntryIdle /\ ScanIdle
  /\ PathIdle
  /\ RulesIdle
  /\ RoundIdle

NextTraverse ==
  \/ TraverseCall /\ UNCHANGED notTraverseVars
  \/ TraverseLeaf /\ UNCHANGED notTraverseVars
  \/ TraverseRevisit /\ UNCHANGED notTraverseVars
  \/ TraverseEnter /\ UNCHANGED notTraverseVars
  \/ TraverseReturn /\ UNCHANGED notTraverseVars

SpecTraverse == InitTraverse /\ [][NextTraverse]_vars

\* makeReplacementContextual on one text
notRefineVars == <<applyVars, diffVars, replaceVars, sanitizeVars, traverseVars, previewVars, entryVars, scanVars, pathVars, rulesVars, roundVars>>

InitRefine ==
  /\ RefineInit /\ ApplyIdle /\ DiffIdle /\ ReplaceIdle /\ SanitizeIdle
  /\ TraverseIdle /\ PreviewIdle /\ EntryIdle /\ ScanIdle
  /\ PathIdle
  /\ RulesIdle
  /\ RoundIdle

NextRefine ==
  \/ RefineCall /\ UNCHANGED notRefineVars
  \/ RefineParse /\ UNCHANGED notRefineVars
  \/ RefineRepair /\ UNCHANGED notRefineVars

SpecRefine == InitRefine /\ [][NextRefine]_vars

\* One preview request
notPreviewVars ==
  <<applyVars, diffVars, replaceVars, sanitizeVars, traverseVars, refineVars, entryVars,
    scanVars, pathVars, rulesVars, roundVars>>

InitPreview ==
  /\ PreviewInit /\ ApplyIdle /\ DiffIdle /\ ReplaceIdle /\ SanitizeIdle
  /\ TraverseIdle /\ RefineIdle /\ EntryIdle /\ ScanIdle
  /\ PathIdle
  /\ RulesIdle
  /\ RoundIdle

NextPreview ==
  \/ PreviewValidate /\ UNCHANGED notPreviewVars
  \/ PreviewRules /\ UNCHANGED notPreviewVars
  \/ PreviewFetch /\ UNCHANGED notPreviewVars
  \/ PreviewTraditionalEntry /\ UNCHANGED notPreviewVars
  \/ PreviewSmartEntry /\ UNCHANGED notPreviewVars
  \/ PreviewRespond /\ UNCHANGED notPreviewVars

SpecPreview == InitPreview /\ [][NextPreview]_vars

\* One fetched entry through sanitizeObject, structuredClone,
\* traverseAndModify and getDifferences
notEntryVars == <<applyVars, diffVars, replaceVars, refineVars, previewVars, scanVars, pathVars, rulesVars, roundVars>>

InitEntry ==
  /\ SanitizeInit /\ TraverseIdle /\ EntryInit
  /\ ApplyIdle /\ DiffIdle /\ ReplaceIdle /\ RefineIdle /\ PreviewIdle /\ ScanIdle
  /\ PathIdle
  /\ RulesIdle
  /\ RoundIdle

NextEntry ==
  \/ SanitizeCall /\ UNCHANGED notSanitizeVars
  \/ SanitizeSkipFunction /\ UNCHANGED notSanitizeVars
  \/ SanitizeLeaf /\ UNCHANGED notSanitizeVars
  \/ SanitizeRevisit /\ UNCHANGED notSanitizeVars
  \/ SanitizeEnter /\ UNCHANGED notSanitizeVars
  \/ SanitizeReturn /\ UNCHANGED notSanitizeVars
  \/ EntryClone /\ UNCHANGED notEntryVars
  \/ TraverseCall /\ UNCHANGED notTraverseVars
  \/ TraverseLeaf /\ UNCHANGED notTraverseVars
  \/ TraverseRevisit /\ UNCHANGED notTraverseVars
  \/ TraverseEnter /\ UNCHANGED notTraverseVars
  \/ TraverseReturn /\ UNCHANGED notTraverseVars
  \/ EntryDiff /\ UNCHANGED notEntryVars

SpecEntry == InitEntry /\ [][NextEntry]_vars

\* One scan request
notScanVars ==
  <<applyVars, diffVars, replaceVars, sanitizeVars, traverseVars, refineVars, previewVars,
    entryVars, pathVars, rulesVars, roundVars>>

InitScan ==
  /\ ScanInit /\ ApplyIdle /\ DiffIdle /\ ReplaceIdle /\ SanitizeIdle /\ TraverseIdle
  /\ RefineIdle /\ PreviewIdle /\ EntryIdle
  /\ PathIdle
  /\ RulesIdle
  /\ RoundIdle

NextScan ==
  \/ ScanValidate /\ UNCHANGED notScanVars
  \/ ScanFetch /\ UNCHANGED notScanVars
  \/ ScanEntry /\ UNCHANGED notScanVars
  \/ ScanRespond /\ UNCHANGED notScanVars

SpecScan == InitScan /\ [][NextScan]_vars

\* One request to one of the three handlers
InitRequest ==
  /\ DiffIdle /\ ReplaceIdle /\ SanitizeIdle /\ TraverseIdle /\ RefineIdle /\ EntryIdle
  /\ \/ PreviewInit /\ ApplyIdle /\ ScanIdle
     \/ ApplyInit /\ PreviewIdle /\ ScanIdle
     \/ ScanInit /\ PreviewIdle /\ ApplyIdle
  /\ PathIdle
  /\ RulesIdle
  /\ RoundIdle

NextRequest ==
  \/ PreviewValidate /\ UNCHANGED notPreviewVars
  \/ PreviewRules /\ UNCHANGED notPreviewVars
  \/ PreviewFetch /\ UNCHANGED notPreviewVars
  \/ PreviewTraditionalEntry /\ UNCHANGED notPreviewVars
  \/ PreviewSmartEntry /\ UNCHANGED notPreviewVars
  \/ PreviewRespond /\ UNCHANGED notPreviewVars
  \/ ApplyReject /\ UNCHANGED notApplyVars
  \/ ApplyStart /\ UNCHANGED notApplyVars
  \/ ApplyFetch /\ UNCHANGED notApplyVars
  \/ ApplyEdit /\ UNCHANGED notApplyVars
  \/ ApplyPersist /\ UNCHANGED notApplyVars
  \/ ApplyRespond /\ UNCHANGED notApplyVars
  \/ ScanValidate /\ UNCHANGED notScanVars
  \/ ScanFetch /\ UNCHANGED notScanVars
  \/ ScanEntry /\ UNCHANGED notScanVars
  \/ ScanRespond /\ UNCHANGED notScanVars

SpecRequest == InitRequest /\ [][NextRequest]_vars

\* One path written through its two notations
notPathVars ==
  <<applyVars, diffVars, replaceVars, sanitizeVars, traverseVars, refineVars, previewVars,
    entryVars, scanVars, rulesVars, roundVars>>

InitPath ==
  /\ PathInit /\ ApplyIdle /\ DiffIdle /\ ReplaceIdle /\ SanitizeIdle /\ TraverseIdle
  /\ RefineIdle /\ PreviewIdle /\ EntryIdle /\ ScanIdle
  /\ RulesIdle
  /\ RoundIdle

NextPath ==
  \/ PathWriteBracket /\ UNCHANGED notPathVars
  \/ PathWriteDot /\ UNCHANGED notPathVars

SpecPath == InitPath /\ [][NextPath]_vars

\* One call of getRules
notRulesVars ==
  <<applyVars, diffVars, replaceVars, sanitizeVars, traverseVars, refineVars, previewVars,
    entryVars, scanVars, pathVars, roundVars>>

InitRules ==
  /\ RulesInit /\ ApplyIdle /\ DiffIdle /\ ReplaceIdle /\ SanitizeIdle /\ TraverseIdle
  /\ RefineIdle /\ PreviewIdle /\ EntryIdle /\ ScanIdle /\ PathIdle
  /\ RoundIdle

NextRules ==
  \/ RulesStart /\ UNCHANGED notRulesVars
  \/ RulesRemote /\ UNCHANGED notRulesVars
  \/ RulesFile /\ UNCHANGED notRulesVars

SpecRules == InitRules /\ [][NextRules]_vars

\* One preview and the apply of all its changes
notRoundVars ==
  <<applyVars, diffVars, replaceVars, sanitizeVars, traverseVars, refineVars, previewVars,
    entryVars, scanVars, pathVars, rulesVars>>

InitRound ==
  /\ RoundInit /\ ApplyIdle /\ DiffIdle /\ ReplaceIdle /\ SanitizeIdle /\ TraverseIdle
  /\ RefineIdle /\ PreviewIdle /\ EntryIdle /\ ScanIdle /\ PathIdle /\ RulesIdle

NextRound ==
  \/ RoundReplace /\ UNCHANGED notRoundVars
  \/ RoundDiff /\ UNCHANGED notRoundVars
  \/ RoundApply /\ UNCHANGED notRoundVars
  \/ RoundPersist /\ UNCHANGED notRoundVars

SpecRound == InitRound /\ [][NextRound]_vars


(***************************************************************************)
(* Properties of apply                                                     *)
(***************************************************************************)
\* term occurs in text at some offset, letters compared without case
ContainsCI(text, term) ==
  \E off \in 0..(Len(text) - Len(term)) :
    \A j \in 1..Len(term) : toLowerChar(text[off + j]) = toLowerChar(term[j])

\* the new value of a change request holds a banned term of the ruleset
BannedCI(rules, newValue) ==
  /\ newValue.t = "str"
  /\ \E i \in 1..Len(rules.bannedTerms) : ContainsCI(newValue.s, rules.bannedTerms[i])

\* the well-formed change requests of the request, in request order
ValidChanges == SelectSeq(req.changes, validChange)

\* the record groups of the request
GroupUids == {ValidChanges[k].entryUid : k \in 1..Len(ValidChanges)}

ChangesOf(uid) == SelectSeq(ValidChanges, LAMBDA c : c.entryUid = uid)

\* a call for the record did not end well
RecordFailed(uid) ==
  \E j \in 1..Len(calls) : calls[j].uid = uid /\ calls[j].outcome # "ok"

Called(op, uid) == \E j \in 1..Len(calls) : calls[j].op = op /\ calls[j].uid = uid

\* the document after the changes that hold no banned term, in order
RECURSIVE EditedDoc(_, _)
EditedDoc(doc, changes) ==
  IF Len(changes) = 0 THEN doc
  ELSE EditedDoc(IF BannedCI(brandkit, Head(changes).newValue) THEN doc
                 ELSE setNestedValue(doc, Head(changes).field, Head(changes).newValue).doc,
                 Tail(changes))

CallIndex(op, uid) == CHOOSE j \in 1..Len(calls) : calls[j].op = op /\ calls[j].uid = uid

ResultsOf(uid) == {i \in 1..Len(response.results) : response.results[i].entryUid = uid}

ApplyDone == pc = "done" /\ req.contentTypeUid # "" /\ Len(req.changes) > 0

\* C1 (apply isolation): when apply has answered a well-formed request, every
\* record group was fetched whatever happened to the groups before it, each
\* group has exactly one result, 'failed' when its fetch or its persist
\* failed (a missing record included) and 'updated' otherwise, the records
\* of the updated groups hold their edits in the store, those of the failed
\* groups are untouched, and totalUpdated + totalFailed = totalProcessed.
C1_ApplyIsolation ==
  ApplyDone =>
    /\ response.status = 200
    /\ Len(response.results) = Cardinality(GroupUids)
    /\ response.totalProcessed = Cardinality(GroupUids)
    /\ response.totalUpdated + response.totalFailed = response.totalProcessed
    /\ \A uid \in GroupUids :
         /\ Called("fetch", uid)
         /\ Cardinality(ResultsOf(uid)) = 1
         /\ \A i \in ResultsOf(uid) :
              response.results[i].status =
                IF RecordFailed(uid) THEN "failed" ELSE "updated"
         /\ ~RecordFailed(uid) =>
              /\ Called("persist", uid)
              /\ store[uid] = EditedDoc(StoreDocs[uid], ChangesOf(uid))
         /\ (RecordFailed(uid) /\ uid \in DOMAIN store) => store[uid] = StoreDocs[uid]

\* C1 witness: two groups, the persist of the first failed, the second is
\* updated and its edit is in the store
C1_Witness ==
  /\ ApplyDone
  /\ response.status = 200
  /\ Len(response.results) = 2
  /\ response.results[1].status = "failed"
  /\ response.results[1].error = "persist failed"
  /\ response.results[2].status = "updated"
  /\ response.totalUpdated = 1
  /\ response.totalFailed = 1
  /\ store[response.results[2].entryUid] # StoreDocs[response.results[2].entryUid]

\* the change the loop of apply is at
AtChange == pc = "edit" /\ ci <= Len(groups[gi].changes)

\* C2 (authoritative banned-term gate): a change whose new value holds a
\* banned term, letters compared without case, is never written into the
\* in-memory document and does not end the record's processing; the other
\* edits of the record are written, the record is persisted, and unless its
\* fetch or persist call itself failed it is reported 'updated'.
C2_BannedGate ==
  /\ [][(AtChange /\ BannedCI(brandkit, groups[gi].changes[ci].newValue)) =>
          (entryData' = entryData /\ pc' = "edit" /\ ci' = ci + 1 /\ results' = results)]_vars
  /\ [](ApplyDone =>
          \A uid \in GroupUids :
            /\ \A n \in 1..Len(ChangesOf(uid)) :
                 (Called("persist", uid) /\ ~BannedCI(brandkit, ChangesOf(uid)[n].newValue))
                   => [uid |-> uid, n |-> n, did |-> "set"] \in Range(editLog)
            /\ Called("fetch", uid) /\ calls[CallIndex("fetch", uid)].outcome = "ok"
                 => Called("persist", uid)
            /\ ~RecordFailed(uid) =>
                 /\ \A i \in ResultsOf(uid) : response.results[i].status = "updated"
                 /\ store[uid] = EditedDoc(StoreDocs[uid], ChangesOf(uid)))

\* C2 witness: a record with a banned edit and another edit was persisted
\* and reported 'updated'; the store holds the other edit only
C2_Witness ==
  /\ ApplyDone
  /\ \E uid \in GroupUids :
       /\ ~RecordFailed(uid)
       /\ \E n \in 1..Len(ChangesOf(uid)) : BannedCI(brandkit, ChangesOf(uid)[n].newValue)
       /\ \E n \in 1..Len(ChangesOf(uid)) : ~BannedCI(brandkit, ChangesOf(uid)[n].newValue)
       /\ [uid |-> uid, n |-> 1, did |-> "skipped"] \in Range(editLog)
       /\ \E i \in ResultsOf(uid) : response.results[i].status = "updated"
       /\ store[uid] # StoreDocs[uid]
       /\ GetProp(store[uid], kTags) = GetProp(StoreDocs[uid], kTags)

(***************************************************************************)
(* Properties of getDifferences and of the classification                  *)
(***************************************************************************)
DiffDone == dPc \in {"diffed", "classified"}

\* C3 (no cosmetic differences): two values with the same display form have
\* no difference, whatever their raw values; a value has no difference with
\* itself or with an equal copy; every entry has before different from after.
C3_NoCosmeticDiff ==
  DiffDone =>
    /\ formatValueForDiff(dOriginal) = formatValueForDiff(dUpdated) => dDiffs = <<>>
    /\ dOriginal = dUpdated => dDiffs = <<>>
    /\ \A i \in 1..Len(dDiffs) : dDiffs[i].before # dDiffs[i].after

\* C3 witness: raw values that differ but display alike were compared, inside
\* two objects whose own display forms differ
C3_Witness ==
  /\ DiffDone
  /\ dOriginal = Obj(<<Prop(<<"x">>, Str(<<>>))>>)
  /\ dUpdated = Obj(<<Prop(<<"x">>, Str(<<" ">>))>>)
  /\ formatValueForDiff(dOriginal) # formatValueForDiff(dUpdated)
  /\ dDiffs = <<>>

\* A document: strings, numbers, booleans, null, arrays and objects
RECURSIVE IsDocument(_)
IsDocument(v) ==
  CASE v.t \in {"str", "num", "bool", "null"} -> TRUE
    [] v.t = "arr" -> \A i \in 1..Len(v.a) : IsDocument(v.a[i])
    [] v.t = "obj" -> \A i \in 1..Len(v.o) : IsDocument(v.o[i].v)
    [] OTHER -> FALSE

\* The scalar leaves of a document with their paths: .key for an object key
\* (the bare key at the root) and [i] for an array index
RECURSIVE LeafPaths(_, _)
LeafPaths(v, path) ==
  CASE v.t = "arr" ->
         Concat([i \in 1..Len(v.a) |->
           LeafPaths(v.a[i], path \o <<"[">> \o NatToText(i - 1) \o <<"]">>)])
    [] v.t = "obj" ->
         Concat([i \in 1..Len(v.o) |->
           LeafPaths(v.o[i].v, IF path = <<>> THEN v.o[i].k ELSE path \o <<".">> \o v.o[i].k)])
    [] OTHER -> <<[path |-> path, leaf |-> v]>>

\* The shape of a document: the document with every scalar leaf blanked
RECURSIVE Shape(_)
Shape(v) ==
  CASE v.t = "arr" -> Arr([i \in 1..Len(v.a) |-> Shape(v.a[i])])
    [] v.t = "obj" -> Obj([i \in 1..Len(v.o) |-> Prop(v.o[i].k, Shape(v.o[i].v))])
    [] OTHER -> Null

DifferingLeaves(a, b) ==
  {i \in 1..Len(LeafPaths(a, <<>>)) : LeafPaths(a, <<>>)[i].leaf # LeafPaths(b, <<>>)[i].leaf}

\* two documents of one shape that differ in exactly one scalar leaf
OneLeafApart(a, b) ==
  /\ IsDocument(a)
  /\ IsDocument(b)
  /\ Shape(a) = Shape(b)
  /\ Cardinality(DifferingLeaves(a, b)) = 1

TheLeaf(a, b) == CHOOSE i \in DifferingLeaves(a, b) : TRUE

\* The entry C4 expects for the one leaf that differs
LeafEntry(a, b) ==
  DiffEntry(LeafPaths(a, <<>>)[TheLeaf(a, b)].path,
            formatValueForDiff(LeafPaths(a, <<>>)[TheLeaf(a, b)].leaf),
            formatValueForDiff(LeafPaths(b, <<>>)[TheLeaf(a, b)].leaf))

DocAB(v) == Obj(<<Prop(<<"a">>, Obj(<<Prop(<<"b">>, Arr(<<Num(1), v>>))>>))>>)

\* C4 as claimed: two documents of one shape that differ in exactly one
\* scalar leaf give exactly one entry, at the path of that leaf, with the
\* display forms of the old and the new leaf; {a:{b:[1,2]}} against
\* {a:{b:[1,9]}} gives [{field:'a.b[1]', before:'1', after:'9'}].
C4_Original ==
  /\ (DiffDone /\ OneLeafApart(dOriginal, dUpdated)) =>
       dDiffs = <<LeafEntry(dOriginal, dUpdated)>>
  /\ (DiffDone /\ dOriginal = DocAB(Num(2)) /\ dUpdated = DocAB(Num(9))) =>
       dDiffs = <<DiffEntry(<<"a", ".", "b", "[", "1", "]">>, <<"1">>, <<"9">>)>>

\* C4 (diff path correctness, amended): two documents of one shape that
\* differ in exactly one scalar leaf give exactly one entry, at the path of
\* that leaf (.key for object keys, the bare key at the root, [i] for array
\* indices) with the display forms of the old and the new leaf, when these
\* display forms differ, and no entry when they are equal.
C4_DiffPath ==
  (DiffDone /\ OneLeafApart(dOriginal, dUpdated)) =>
    dDiffs = IF LeafEntry(dOriginal, dUpdated).before = LeafEntry(dOriginal, dUpdated).after
             THEN <<>>
             ELSE <<LeafEntry(dOriginal, dUpdated)>>

\* C4 witness: {a:{b:[1,2]}} against {a:{b:[1,9]}} gave
\* [{field:'a.b[1]', before:'2', after:'9'}]
C4_Witness ==
  /\ DiffDone
  /\ dOriginal = DocAB(Num(2))
  /\ dUpdated = DocAB(Num(9))
  /\ OneLeafApart(dOriginal, dUpdated)
  /\ dDiffs = <<DiffEntry(<<"a", ".", "b", "[", "1", "]">>, <<"2">>, <<"9">>)>>

\* C9 (policy classification): every classified entry has brandkit_approved
\* false exactly when some banned term occurs in its after value, letters
\* compared without case, and keeps field, before and after as they were.
C9_Classification ==
  dPc = "classified" =>
    /\ Len(dChanges) = Len(dDiffs)
    /\ \A i \in 1..Len(dChanges) :
         /\ dChanges[i].brandkit_approved =
              ~(\E t \in 1..Len(dRules.bannedTerms) :
                  ContainsCI(dDiffs[i].after, dRules.bannedTerms[t]))
         /\ DOMAIN dChanges[i] = {"field", "before", "after", "brandkit_approved"}
         /\ dChanges[i].field = dDiffs[i].field
         /\ dChanges[i].before = dDiffs[i].before
         /\ dChanges[i].after = dDiffs[i].after

\* C9 witness: an entry whose after value holds the banned term "Bad" in
\* another case was classified as not approved, next to an approved one
C9_Witness ==
  /\ dPc = "classified"
  /\ \E i \in 1..Len(dChanges) :
       /\ ~dChanges[i].brandkit_approved
       /\ ContainsCI(dChanges[i].after, <<"B", "a", "d">>)
       /\ ~includes(dChanges[i].after, <<"B", "a", "d">>)
  /\ \E i \in 1..Len(dChanges) : dChanges[i].brandkit_approved

(***************************************************************************)
(* Properties of traverseAndModify                                         *)
(***************************************************************************)
\* rn(... r2(r1(text)) ...)
RECURSIVE Piped(_, _)
Piped(rs, text) ==
  IF Len(rs) = 0 THEN text
  ELSE callReplacer(rs[Len(rs)], Piped(SubSeq(rs, 1, Len(rs) - 1), text))

\* r1(... rn(text) ...)
RECURSIVE PipedBackwards(_, _)
PipedBackwards(rs, text) ==
  IF Len(rs) = 0 THEN text
  ELSE callReplacer(rs[1], PipedBackwards(Tail(rs), text))

\* C5 (replacer order): the value returned has the shape of the input, every
\* string leaf s is replaced by rn(...r2(r1(s))...) and every other leaf is
\* unchanged; the list preview builds holds the policy-driven replacer
\* first and the caller's term replacer second.
C5_ReplacerOrder ==
  /\ rPc = "done" =>
       /\ Shape(rOut) = Shape(rData)
       /\ \A i \in 1..Len(LeafPaths(rData, <<>>)) :
            LET in == LeafPaths(rData, <<>>)[i]
                out == LeafPaths(rOut, <<>>)[i]
            IN /\ out.path = in.path
               /\ out.leaf = IF in.leaf.t = "str"
                             THEN Str(Piped(rReplacers, in.leaf.s))
                             ELSE in.leaf
  /\ (rPc \in {"run", "done"} /\ rRequest # NoRequest) =>
       /\ Len(rReplacers) = 2
       /\ rReplacers[1] = BrandkitReplacer(rRequest.rules.approvedTerms)
       /\ rReplacers[2] = UserQueryReplacer(rRequest.query, rRequest.replaceWith)

\* C5 witness: preview's two replacers ran on a leaf where the order shows:
\* the policy replacement made the text the term replacer then changed
C5_Witness ==
  /\ rPc = "done"
  /\ rRequest # NoRequest
  /\ rData = Str(<<"a", "b">>)
  /\ rOut = Str(<<"c">>)
  /\ PipedBackwards(rReplacers, rData.s) # rOut.s

(***************************************************************************)
(* Properties of sanitizeObject and traverseAndModify on object graphs     *)
(***************************************************************************)
\* One call and one return for every node and one step for every element
\* or property; one call when the data is no object
WalkBudget(nodes) == 1 + SumSeq([i \in 1..Len(nodes) |-> 2 + Len(nodes[i].slots)])

NoDuplicates(seq) == \A i, j \in 1..Len(seq) : seq[i] = seq[j] => i = j

\* The properties of a node that sanitizeObject copies
KeptSlots(node) ==
  IF node.kind = "obj"
  THEN SelectSeq(node.slots, LAMBDA slot : slot.v.t # "fn")
  ELSE node.slots

CopyOf(v) == IF IsRef(v) THEN Ref(visited[v.id]) ELSE v

\* C6 (sanitizer cycle safety): on every graph of objects and arrays, cyclic
\* ones included, sanitizeObject always has a next step until it returns
\* and returns within one call and one return per node; it creates at most
\* one copy per input node; and where the input refers to a node, the copy
\* refers to the one copy made of that node, so a cycle of the input is the
\* same cycle among the copies.
C6_SanitizeCycleSafe ==
  /\ sSteps <= WalkBudget(gNodes)
  /\ sPc \in {"call", "walk"} => ENABLED NextSanitize
  /\ Len(sCopies) <= Len(gNodes)
  /\ \A i, j \in 1..Len(gNodes) :
       (visited[i] # 0 /\ visited[i] = visited[j]) => i = j
  /\ \A c \in 1..Len(sCopies) : \E i \in 1..Len(gNodes) : visited[i] = c
  /\ sPc = "done" =>
       /\ sStack = <<>>
       /\ sResult = CopyOf(gRoot)
       /\ \A i \in 1..Len(gNodes) : visited[i] # 0 =>
            LET kept == KeptSlots(gNodes[i])
                copy == sCopies[visited[i]]
            IN /\ copy.kind = gNodes[i].kind
               /\ Len(copy.slots) = Len(kept)
               /\ \A j \in 1..Len(kept) :
                    /\ copy.slots[j].k = kept[j].k
                    /\ copy.slots[j].v = CopyOf(kept[j].v)
                    /\ IsRef(kept[j].v) => visited[kept[j].v.id] # 0

HasSlot(node, v) == \E j \in 1..Len(node.slots) : node.slots[j].v = v

\* C6 witness: two nodes that refer to each other and the second also to
\* itself were sanitized; their two copies refer to each other the same way
C6_Witness ==
  /\ sPc = "done"
  /\ Len(gNodes) = 2
  /\ HasSlot(gNodes[1], Ref(2))
  /\ HasSlot(gNodes[2], Ref(1))
  /\ HasSlot(gNodes[2], Ref(2))
  /\ Len(sCopies) = 2
  /\ HasSlot(sCopies[1], Ref(2))
  /\ HasSlot(sCopies[2], Ref(1))
  /\ HasSlot(sCopies[2], Ref(2))

RefsTo(copies, c) ==
  {<<p, j>> \in (1..Len(copies)) \X (1..MaxSlots) :
     j <= Len(copies[p].slots) /\ copies[p].slots[j].v = Ref(c)}

\* C7 (replacement engine cycle guard): on every graph of objects and
\* arrays traverseAndModify always has a next step until it returns and
\* returns within one call and one return per node; each node is entered
\* once; in the result a position that referred to a node holds either the
\* one new node made when that node was first reached or the string
\* "[Circular Reference]", every other string is the replaced string, and
\* the new nodes form a tree: each but the root is referred to exactly once,
\* by a node created before it.
C7_TraverseCycleGuard ==
  /\ tSteps <= WalkBudget(tNodes)
  /\ tPc \in {"call", "walk"} => ENABLED NextTraverse
  /\ NoDuplicates(seen)
  /\ Len(tCopies) = Len(seen)
  /\ tPc = "done" =>
       /\ tStack = <<>>
       /\ tResult = IF IsRef(tRoot) THEN Ref(1)
                    ELSE IF tRoot.t = "str" THEN Str(Piped(tReplacers, tRoot.s))
                    ELSE tRoot
       /\ IsRef(tRoot) => seen[1] = tRoot.id
       /\ \A c \in 1..Len(tCopies) :
            LET node == tNodes[seen[c]]
                copy == tCopies[c]
            IN /\ copy.kind = node.kind
               /\ Len(copy.slots) = Len(node.slots)
               /\ \A j \in 1..Len(node.slots) :
                    LET in == node.slots[j].v
                        out == copy.slots[j].v
                    IN /\ copy.slots[j].k = node.slots[j].k
                       /\ IF IsRef(in)
                          THEN \/ out = Str(CircularReference)
                               \/ /\ IsRef(out)
                                  /\ out.id > c
                                  /\ out.id <= Len(tCopies)
                                  /\ seen[out.id] = in.id
                          ELSE IF in.t = "str"
                          THEN out = Str(Piped(tReplacers, in.s))
                          ELSE out = in
       /\ RefsTo(tCopies, 1) = {}
       /\ \A c \in 2..Len(tCopies) : Cardinality(RefsTo(tCopies, c)) = 1

\* C7 witness: a node that holds a second node twice was traversed, the
\* second node holding the first: the result holds one new node where the
\* second node is first met and the marker where it is met again, and the
\* new node holds the marker in place of the first node
C7_Witness ==
  /\ tPc = "done"
  /\ Len(tNodes) = 2
  /\ tNodes[1].slots = slotsOf(tNodes[1].kind, <<Ref(2), Ref(2)>>)
  /\ tNodes[2].slots = slotsOf(tNodes[2].kind, <<Ref(1)>>)
  /\ tCopies[1].slots[1].v = Ref(2)
  /\ tCopies[1].slots[2].v = Str(CircularReference)
  /\ tCopies[2].slots[1].v = Str(CircularReference)

(***************************************************************************)
(* Properties of makeReplacementContextual                                 *)
(***************************************************************************)
RefineDone == fPc = "done"

\* The call failed or returned nothing
NothingReturned == fGemini.kind = "throw" \/ fGemini.v = Str(<<>>)

\* The text of the service, sanitized, does not parse, and neither does a
\* repaired text
Unparseable ==
  /\ ~NothingReturned
  /\ ~JSONparse(sanitizeGeminiResponse(fGemini.v.s)).ok
  /\ fRepair.kind = "throw" \/ ~JSONparse(fRepair.v).ok

\* C8 (refinement fallback): makeReplacementContextual always returns and
\* never throws; it returns the text it was given when the call to the
\* service failed or returned nothing and when neither the sanitized
\* response nor its repair parses; in every other case it returns the
\* sanitized response or its repair, and that text parses as JSON.
C8_RefineFallback ==
  RefineDone =>
    /\ fResult.kind = "return"
    /\ (NothingReturned \/ Unparseable) => fResult.v = fInput
    /\ ~(NothingReturned \/ Unparseable) =>
         /\ JSONparse(fResult.v).ok
         /\ fResult.v = IF fRepair.kind = "return" THEN fRepair.v
                        ELSE sanitizeGeminiResponse(fGemini.v.s)

\* C8 witness: the response did not parse, jsonrepair returned a text that
\* does not parse either, and the text given was returned
C8_Witness ==
  /\ RefineDone
  /\ fGemini.kind = "return"
  /\ fSanitized = <<"{", "a", ":", "1", "}">>
  /\ fRepair.kind = "return"
  /\ ~JSONparse(fRepair.v).ok
  /\ fResult = Return(fInput)

(***************************************************************************)
(* Properties of preview                                                   *)
(***************************************************************************)
\* The text with every occurrence of the query, in any letter case, replaced
\* by replaceWith as it is written
RECURSIVE ReplacedLiterally(_, _, _)
ReplacedLiterally(text, query, replaceWith) ==
  IF Len(text) = 0 THEN <<>>
  ELSE IF Len(text) >= Len(query)
          /\ toLowerCase(SubSeq(text, 1, Len(query))) = toLowerCase(query)
  THEN replaceWith
       \o ReplacedLiterally(SubSeq(text, Len(query) + 1, Len(text)), query, replaceWith)
  ELSE <<Head(text)>> \o ReplacedLiterally(Tail(text), query, replaceWith)

\* The string leaves of an entry that hold the query and that the literal
\* replacement changes
QueryLeaves(entry, query, replaceWith) ==
  {l \in Range(LeafPaths(entry, <<>>)) :
     /\ l.leaf.t = "str"
     /\ includes(toLowerCase(l.leaf.s), toLowerCase(query))
     /\ ReplacedLiterally(l.leaf.s, query, replaceWith) # l.leaf.s}

PreviewAnswered == vPc = "done" /\ vResponse.status = 200

ChangesAt(listed, field) ==
  {c \in 1..Len(listed.changes) : listed.changes[c].field = field}

\* C10 (traditional preview end to end): when smart is not "true" the
\* response has mode "traditional"; for every fetched entry, every string
\* leaf that holds the query and that the replacement changes has exactly
\* one change in the entry's listing, at the leaf's path, with before the
\* original text and after the text with every occurrence of the query
\* replaced by replaceWith; no listed entry has an empty change list; and
\* totalChanges is the sum of the lengths of the listed change lists.
C10_TraditionalPreview ==
  (PreviewAnswered /\ vReq.smart # Str(<<"t", "r", "u", "e">>)) =>
    LET body == vResponse.body
        query == vReq.query.s
        replaceWith == vReq.replaceWith.s
    IN /\ body.mode = "traditional"
       /\ \A i \in 1..Len(vEntries) :
            \A l \in QueryLeaves(vEntries[i], query, replaceWith) :
              \E r \in 1..Len(body.preview) :
                /\ body.preview[r].entryUid = GetProp(vEntries[i], kUid)
                /\ Cardinality(ChangesAt(body.preview[r], l.path)) = 1
                /\ \A c \in ChangesAt(body.preview[r], l.path) :
                     /\ body.preview[r].changes[c].before = l.leaf.s
                     /\ body.preview[r].changes[c].after =
                          ReplacedLiterally(l.leaf.s, query, replaceWith)
       /\ \A r \in 1..Len(body.preview) : Len(body.preview[r].changes) > 0
       /\ body.totalChanges =
            SumSeq([r \in 1..Len(body.preview) |-> Len(body.preview[r].changes)])

(***************************************************************************)
(* Properties of preview on entries that are object graphs                 *)
(***************************************************************************)
\* C11 (whole-request errors in preview): once the parameters were valid
\* and the fetch succeeded, the work on a fetched entry never ends in the
\* whole-request error, whatever the entry holds, a reference cycle
\* included.
C11_PreviewNeverAborts == ePc = "done" => eResponse.status = 200


(***************************************************************************)
(* Validation before any work                                              *)
(***************************************************************************)
Missing(v) == v = Undef

PreviewLacksParameter ==
  \/ Missing(vReq.contentTypeUid)
  \/ Missing(vReq.query)
  \/ Missing(vReq.replaceWith)
  \/ Missing(vReq.entryUids)

ApplyLacksParameter == req.contentTypeUid = "" \/ Len(req.changes) = 0

ScanLacksParameter ==
  Missing(nReq.contentTypeUid) \/ Missing(nReq.query) \/ Missing(nReq.entryUids)

\* C12 (validation before any work): a preview, apply or scan request that
\* lacks a required parameter is answered by the first step of its handler
\* with status 400, and the handler has then called neither the policy
\* service, nor the record store (fetch or persist), nor the refinement
\* service; the store is as it was.
C12_ValidationFirst ==
  /\ (vPc \notin {"idle", "start"} /\ PreviewLacksParameter) =>
       (vPc = "done" /\ vResponse.status = 400 /\ vCalls = <<>>)
  /\ (pc \notin {"idle", "start"} /\ ApplyLacksParameter) =>
       (pc = "done" /\ response.status = 400 /\ calls = <<>> /\ store = StoreDocs)
  /\ (nPc \notin {"idle", "start"} /\ ScanLacksParameter) =>
       (nPc = "done" /\ nResponse.status = 400 /\ nCalls = <<>>)

\* A scan request that lacks only its entryUids has been rejected
C12_Witness ==
  /\ nPc = "done"
  /\ nResponse.status = 400
  /\ Missing(nReq.entryUids)
  /\ ~Missing(nReq.contentTypeUid)
  /\ ~Missing(nReq.query)


(***************************************************************************)
(* Scan and the selection                                                  *)
(***************************************************************************)
SelectedUids == {selectedEntryUidsOf(nReq).a[i] : i \in 1..Len(selectedEntryUidsOf(nReq).a)}

\* C14 (scan is restricted to the selected entries): every entry the scan
\* has fetched, and every match of its answer, has a uid that is among the
\* entryUids of the request.
C14_ScanSelection ==
  (nPc \in {"scan", "done"} /\ nResponse.status # 400) =>
    /\ \A i \in 1..Len(nEntries) : GetProp(nEntries[i], kUid) \in SelectedUids
    /\ \A i \in 1..Len(nMatches) : nMatches[i].entryUid \in SelectedUids
    /\ nResponse.status = 200 =>
         \A i \in 1..Len(nResponse.body.matches) :
           nResponse.body.matches[i].entryUid \in SelectedUids


(***************************************************************************)
(* The two path notations                                                  *)
(***************************************************************************)
\* C13 (path notations are interchangeable): once the same path has been
\* written through its bracket-index form and through its dot-index form,
\* the two documents are equal and the two writes have both resolved or
\* both failed to resolve.
C13_NotationsInterchangeable ==
  (hBracket # <<>> /\ hDot # <<>>) => hBracket = hDot


(***************************************************************************)
(* The policy service and its fallback                                     *)
(***************************************************************************)
EmptyRuleset == Ruleset(Arr(<<>>), Arr(<<>>))

Configured == kEnv.url /\ kEnv.key /\ kEnv.id

\* The file holds JSON of something that has properties
FileRules == kFile.readable /\ JSONparse(kFile.data).ok /\ JSONparse(kFile.data).v # Null

ListOr(v) == IF v \in {Undef, Null} THEN Arr(<<>>) ELSE v

C16_SanitizedIsData ==
  sPc = "done" =>
    /\ sResult.t # "fn"
    /\ \A c \in 1..Len(sCopies) :
         \A j \in 1..Len(sCopies[c].slots) : sCopies[c].slots[j].v.t # "fn"


(***************************************************************************)
(* Additions, removals and type changes                                    *)
(***************************************************************************)
\* The two sides are not both arrays and not both objects that are no arrays
KindsDiffer(a, b) == ~(IsArr(a) /\ IsArr(b)) /\ ~(IsObj(a) /\ IsObj(b))

\* C17 (additions, removals and type changes are single leaf entries): when
\* the two sides compared are not both arrays and not both non-array
\* objects, and their display forms differ, getDifferences returns exactly
\* one entry, at the path of the comparison, with the two display forms.
C17_SingleLeafEntry ==
  (dPc # "input" /\ dPc # "idle" /\ ~dSameRef /\ KindsDiffer(dOriginal, dUpdated)
     /\ formatValueForDiff(dOriginal) # formatValueForDiff(dUpdated)) =>
    dDiffs = <<DiffEntry(<<>>, formatValueForDiff(dOriginal), formatValueForDiff(dUpdated))>>


(***************************************************************************)
(* The order of fetch, edits and persist in apply                          *)
(***************************************************************************)
CallsOf(op, uid) == {j \in 1..Len(calls) : calls[j].op = op /\ calls[j].uid = uid}

\* the edits of a record logged so far, in the order in which they were made
EditsOf(uid) == SelectSeq(editLog, LAMBDA e : e.uid = uid)

\* the value the last change of the record that holds no banned term and
\* addresses the top-level field gave to it
RECURSIVE LastWrite(_, _, _)
LastWrite(changes, field, value) ==
  IF Len(changes) = 0 THEN value
  ELSE LastWrite(Tail(changes), field,
                 IF Head(changes).field = field /\ ~BannedCI(brandkit, Head(changes).newValue)
                 THEN parsedOrRaw(Head(changes).newValue)
                 ELSE value)

\* C18 (per-record orchestration order): at every moment of an apply request
\* a record has been fetched at most once and persisted at most once; an
\* edit of a record is made only after its fetch has answered with the
\* record, and the edits of a record are made in request order, none twice;
\* the persist of a record comes after its fetch and after the last of its
\* edits, so it is one call per record and not one per field; a record whose
\* fetch failed is never persisted; and when the request is answered every
\* group was fetched exactly once and a persisted record holds, in each
\* top-level field, the value of the last edit made to that field.
C18_OrchestrationOrder ==
  \A uid \in GroupUids :
    /\ Cardinality(CallsOf("fetch", uid)) <= 1
    /\ Cardinality(CallsOf("persist", uid)) <= 1
    /\ Len(EditsOf(uid)) <= Len(ChangesOf(uid))
    /\ \A n \in 1..Len(EditsOf(uid)) : EditsOf(uid)[n].n = n
    /\ Len(EditsOf(uid)) > 0 =>
         \E j \in CallsOf("fetch", uid) : calls[j].outcome = "ok"
    /\ \A p \in CallsOf("persist", uid) :
         /\ \E j \in CallsOf("fetch", uid) : j < p /\ calls[j].outcome = "ok"
         /\ Len(EditsOf(uid)) = Len(ChangesOf(uid))
    /\ ApplyDone =>
         /\ Cardinality(CallsOf("fetch", uid)) = 1
         /\ (\E p \in CallsOf("persist", uid) : calls[p].outcome = "ok") =>
              \A f \in {kBody} :
                GetProp(store[uid], f) = LastWrite(ChangesOf(uid), f, GetProp(StoreDocs[uid], f))

\* Two edits of the body of e1, the second the last of the record, were made
\* in request order after one fetch, one persist followed, and the store
\* holds the value of the second
C18_Witness ==
  /\ ApplyDone
  /\ Len(ChangesOf("e1")) = 2
  /\ ChangesOf("e1")[1] = Change("e1", kBody, Str(<<"n", "e", "w">>))
  /\ ChangesOf("e1")[2] = Change("e1", kBody, Str(<<"n", "2">>))
  /\ Len(EditsOf("e1")) = 2
  /\ Cardinality(CallsOf("fetch", "e1")) = 1
  /\ Cardinality(CallsOf("persist", "e1")) = 1
  /\ GetProp(store["e1"], kBody) = Str(<<"n", "2">>)


(***************************************************************************)
(* A path that does not resolve                                            *)
(***************************************************************************)
\* the segments before the last, in the order in which they are descended,
\* up to the first that is missing or null in the document: <<>> when none is
RECURSIVE BrokenAt(_, _)
BrokenAt(doc, keys) ==
  IF Len(keys) <= 1 THEN <<>>
  ELSE IF GetProp(doc, Head(keys)) \in {Undef, Null} THEN <<Head(keys)>>
  ELSE BrokenAt(GetProp(doc, Head(keys)), Tail(keys))

Broken(doc, change) == BrokenAt(doc, pathKeys(change.field)) # <<>>

\* the document after the changes of a record, those left out that hold a
\* banned term or whose path is broken in the document as it is when their
\* turn comes
RECURSIVE ResolvedDoc(_, _)
ResolvedDoc(doc, changes) ==
  IF Len(changes) = 0 THEN doc
  ELSE ResolvedDoc(IF BannedCI(brandkit, Head(changes).newValue) \/ Broken(doc, Head(changes))
                   THEN doc
                   ELSE setNestedValue(doc, Head(changes).field, Head(changes).newValue).doc,
                   Tail(changes))

\* C19 (path resolution failure is isolated to the edit): an edit whose path
\* has a missing or null intermediate segment in the live document leaves
\* the document as it was, writes one error line naming that segment and
\* the path, and the loop goes on with the next edit of the record without
\* any result recorded for the record; when the request is answered every
\* fetched record was passed on to persist, and a record whose calls all
\* succeeded is reported 'updated' and holds all its other edits.
C19_PathFailureIsolated ==
  /\ [][(AtChange /\ ~BannedCI(brandkit, groups[gi].changes[ci].newValue)
           /\ Broken(entryData, groups[gi].changes[ci])) =>
          /\ entryData' = entryData
          /\ pathErrors' =
               Append(pathErrors,
                      [key |-> BrokenAt(entryData, pathKeys(groups[gi].changes[ci].field))[1],
                       path |-> groups[gi].changes[ci].field])
          /\ pc' = "edit" /\ ci' = ci + 1 /\ gi' = gi
          /\ results' = results /\ calls' = calls]_vars
  /\ [](ApplyDone =>
          \A uid \in GroupUids :
            /\ (\E j \in CallsOf("fetch", uid) : calls[j].outcome = "ok")
                 => Cardinality(CallsOf("persist", uid)) = 1
            /\ ~RecordFailed(uid) =>
                 /\ \A i \in ResultsOf(uid) : response.results[i].status = "updated"
                 /\ store[uid] = ResolvedDoc(StoreDocs[uid], ChangesOf(uid)))

\* The path no.x of the first edit of e2 did not resolve, the error names no
\* and no.x, the second edit of e2 is in the store and e2 is reported updated
C19_Witness ==
  /\ ApplyDone
  /\ ChangesOf("e2") = <<Change("e2", <<"n", "o", ".", "x">>, Str(<<"w">>)),
                         Change("e2", kBody, Str(<<"z">>))>>
  /\ [key |-> <<"n", "o">>, path |-> <<"n", "o", ".", "x">>] \in Range(pathErrors)
  /\ ~RecordFailed("e2")
  /\ \A i \in ResultsOf("e2") : response.results[i].status = "updated"
  /\ GetProp(store["e2"], kBody) = Str(<<"z">>)
  /\ GetProp(store["e2"], <<"n", "o">>) = Undef


(***************************************************************************)
(* The location a path addresses                                           *)
(***************************************************************************)
SegKeys(segs) == [i \in 1..Len(segs) |-> segs[i].k]

\* the document has a property or an element under every key of the path
RECURSIVE Exists(_, _)
Exists(doc, keys) ==
  \/ Len(keys) = 0
  \/ /\ \/ IsObj(doc) /\ HasKey(doc.o, Head(keys))
        \/ IsArr(doc) /\ IsIndexKey(Head(keys)) /\ TextToNat(Head(keys)) < Len(doc.a)
     /\ Exists(GetProp(doc, Head(keys)), Tail(keys))

\* the document with the value at the existing location replaced
RECURSIVE Replaced(_, _, _)
Replaced(doc, keys, v) ==
  IF Len(keys) = 0 THEN v
  ELSE SetProp(doc, Head(keys), Replaced(GetProp(doc, Head(keys)), Tail(keys), v))

\* C20 (a path resolves to one existing location or the edit fails): after a
\* write through a path, either the path addressed a location of the
\* document and the document differs from the one before only in the value
\* at that location, or the document is as it was before; no key and no
\* array slot is new.
C20_NoNewLocation ==
  hDot # <<>> =>
    IF Exists(hDoc, SegKeys(hSegs))
    THEN hDot[1].doc = Replaced(hDoc, SegKeys(hSegs), parsedOrRaw(hValue))
    ELSE hDot[1].doc = hDoc


(***************************************************************************)
(* The count of applied changes                                            *)
(***************************************************************************)
\* the number of the changes of a record that are written: those that hold
\* no banned term and whose path is not broken in the document as it is when
\* their turn comes
RECURSIVE WrittenCount(_, _)
WrittenCount(doc, changes) ==
  IF Len(changes) = 0 THEN 0
  ELSE IF BannedCI(brandkit, Head(changes).newValue) \/ Broken(doc, Head(changes))
  THEN WrittenCount(doc, Tail(changes))
  ELSE 1 + WrittenCount(setNestedValue(doc, Head(changes).field, Head(changes).newValue).doc,
                        Tail(changes))

\* C22 (changesApplied is the number of edits actually applied): in every
\* result with status 'updated' of an answered apply request, changesApplied
\* is the number of the record's edits that were written into the document,
\* the edits skipped for a banned term and those whose path did not resolve
\* not counted.
C22_ChangesAppliedCount ==
  ApplyDone =>
    \A i \in 1..Len(response.results) :
      response.results[i].status = "updated" =>
        response.results[i].changesApplied =
          WrittenCount(StoreDocs[response.results[i].entryUid],
                       ChangesOf(response.results[i].entryUid))


(***************************************************************************)
(* The round trip of preview and apply                                     *)
(***************************************************************************)
\* C21 (preview/apply round trip): when every difference of a preview has
\* been sent back as a change and written into a fresh copy of the original
\* entry, that copy equals the entry the replacement produced: each changed
\* string holds the replaced text and nothing else has changed.
C21_RoundTrip == oPc = "done" => oData = oUpdated


(***************************************************************************)
(* The gate and the value stored                                           *)
(***************************************************************************)
\* the strings held anywhere in a value
RECURSIVE Texts(_)
Texts(v) ==
  CASE v.t = "str" -> {v.s}
    [] v.t = "arr" -> UNION {Texts(v.a[i]) : i \in 1..Len(v.a)}
    [] v.t = "obj" -> UNION {Texts(v.o[i].v) : i \in 1..Len(v.o)}
    [] OTHER -> {}

HoldsBanned(v) ==
  \E text \in Texts(v) : \E i \in 1..Len(brandkit.bannedTerms) :
    ContainsCI(text, brandkit.bannedTerms[i])

\* C23 (the gate judges what is written): the records of the store hold no
\* banned term before the request, and no record that apply has persisted
\* holds a banned term, letters compared without case, in any of its strings.
C23_GateJudgesStored ==
  \A uid \in DOMAIN store :
    ~HoldsBanned(StoreDocs[uid]) => ~HoldsBanned(store[uid])

=============================================================================
